---- MODULE Spec2Model ----
(***************************************************************************)
(* Rule-based compliance evaluator, report synthesis, audit-report store   *)
(* and orchestration hooks of guardly-ai.                                  *)
(*                                                                         *)
(*   runAgent4Simulation   src/lib/automationData.ts and its second copy   *)
(*                         (the Automation feature's local schema)         *)
(*   checkCompliance       src/lib/compliance-logic.ts, called once per    *)
(*                         transaction by AutomationPage.processStep4      *)
(*   runAgent5Simulation   src/lib/automationData.ts and its second copy   *)
(*   addAuditReport        src/contexts/PipelineContext.tsx                *)
(*   runFullPipeline, runMasterAgent, reset                                *)
(*                         src/hooks/usePipelineRunner.ts, useMasterAgent  *)
(*                                                                         *)
(*   callAgent, pause, resume, chunked compliance mapping                  *)
(*                         useMasterAgent                                  *)
(*   runAgent              useStreamingAgent                               *)
(*   addRegulations, addParsedClauses, addTransactions,                    *)
(*   addComplianceResults  src/contexts/PipelineContext.tsx                *)
(*   serve handler         supabase/functions/batch-compliance-audit       *)
(*                                                                         *)
(* Specifications.  Spec: the evaluators.  SpecReport: report synthesis.   *)
(* SpecStore: the store's audit reports.  SpecPipelineStore: all five      *)
(* collections of the store.  SpecRunner: the hooks.  SpecCallAgent:       *)
(* callAgent with pause and resume.  SpecMapping: the chunked mapping.     *)
(* SpecStreaming: useStreamingAgent.  SpecBatchAudit: the audit function.  *)
(* Each keeps the variables of the others at their initial values.         *)
(*                                                                         *)
(* Numbers.  Amounts, taxes and bid counts are integers.  The comparison   *)
(* tax_paid < expectedTax * 0.95 is evaluated exactly, cross-multiplied so *)
(* that it needs no fraction.  The risk score is a double in the code:     *)
(* riskScore is kept in units of 1/10000, truncated, so that the binary    *)
(* representation error of n * 0.3 (0.8999999999999999 for n = 3) is       *)
(* visible and toFixed(2) has something to round; overall_risk_score is    *)
(* in hundredths.                                                          *)
(*                                                                         *)
(* Strings that the code only copies or compares are TLA+ strings.         *)
(* Strings that the code searches (document names, required-document tags) *)
(* are sequences of one-character strings.                                 *)
(* An optional field that is undefined is a field the record does not have.*)
(***************************************************************************)
EXTENDS Integers, Sequences, FiniteSets, TLC

VARIABLES schema, clauses, transactions, calls,
          results, reportTransactions, reports,
          auditReports,
          hook, progress, isRunning, finalReport, runs, event,
          clock, lastCallAt, isPaused, pauseResolve, agentCalls, sent,
          mapping,
          isLoading, streamRuns,
          regulations,
          aiResponse, response

dataVars == <<schema, clauses, transactions, calls, results, reportTransactions, reports>>

hookVars == <<hook, progress, isRunning, finalReport, runs, event>>

agentVars == <<clock, lastCallAt, isPaused, pauseResolve, agentCalls, sent>>

serviceVars == <<agentVars, mapping, isLoading, streamRuns, regulations,
                 aiResponse, response>>

vars == <<dataVars, auditReports, hookVars, serviceVars>>

(***************************************************************************)
(* Bounds of the model.                                                    *)
(***************************************************************************)
MaxClauses == 2
MaxTransactions == 2
MaxCalls == 2
MaxStoreCalls == 3
MaxInvocations == 2
MaxItems == 2
MaxAgentCalls == 2
MaxInputTransactions == 7
MaxAllClauses == 4
MaxStreamRuns == 2
MaxChunks == 2
MaxBatch == 2

(***************************************************************************)
(* String.prototype.toLowerCase, String.prototype.includes                 *)
(***************************************************************************)
UpperCase == <<"A","B","C","D","E","F","G","H","I","J","K","L","M",
               "N","O","P","Q","R","S","T","U","V","W","X","Y","Z">>
LowerCase == <<"a","b","c","d","e","f","g","h","i","j","k","l","m",
               "n","o","p","q","r","s","t","u","v","w","x","y","z">>

toLowerCaseMap ==
    [c \in {UpperCase[i] : i \in DOMAIN UpperCase} |->
        LowerCase[CHOOSE i \in DOMAIN UpperCase : UpperCase[i] = c]]

toLowerCaseChar(c) == IF c \in DOMAIN toLowerCaseMap THEN toLowerCaseMap[c] ELSE c

toLowerCase(s) == [i \in 1..Len(s) |-> toLowerCaseChar(s[i])]

includes(s, sub) ==
    \E i \in 1..(Len(s) - Len(sub) + 1) : SubSeq(s, i, i + Len(sub) - 1) = sub

(***************************************************************************)
(* Array.prototype.includes on a list of category strings.                 *)
(***************************************************************************)
arrayIncludes(arr, x) == \E i \in DOMAIN arr : arr[i] = x

(***************************************************************************)
(* Document names and required-document tags, as character sequences.      *)
(***************************************************************************)
tag_vendor_cert == <<"v","e","n","d","o","r","_","c","e","r","t">>
tag_invoice == <<"i","n","v","o","i","c","e">>
tag_project_order == <<"p","r","o","j","e","c","t","_","o","r","d","e","r">>
tag_bid_summary == <<"b","i","d","_","s","u","m","m","a","r","y">>
doc_invoice_pdf == <<"i","n","v","o","i","c","e",".","p","d","f">>
doc_grn_pdf == <<"g","r","n",".","p","d","f">>
doc_contract_pdf == <<"c","o","n","t","r","a","c","t",".","p","d","f">>
doc_Invoice_pdf == <<"I","n","v","o","i","c","e",".","p","d","f">>
doc_GRN_pdf == <<"G","R","N",".","p","d","f">>
doc_project_order_2024_pdf == <<"p","r","o","j","e","c","t","_","o","r","d","e","r","_","2","0","2","4",".","p","d","f">>
doc_Vendor_Cert_PDF == <<"V","e","n","d","o","r","_","C","e","r","t",".","P","D","F">>
doc_Bid_Summary_xlsx == <<"B","i","d","_","S","u","m","m","a","r","y",".","x","l","s","x">>

(***************************************************************************)
(* Inputs of runAgent4Simulation: ParsedClause and Transaction records.    *)
(* The first two clauses are the two rules of the sample data (a GST rate  *)
(* rule and a minimum-bids rule); the others define no check, or all three *)
(* checks in one clause with a threshold that a transaction amount equals. *)
(***************************************************************************)
ClauseUniverse ==
    { [clause_id |-> "2024_GST_CIRCULAR_045_CLAUSE_1",
       transaction_types |-> <<"construction">>,
       amount_threshold |-> 1000000,
       tax_rate |-> 18,
       required_documents |-> <<tag_vendor_cert, tag_invoice, tag_project_order>>,
       severity |-> "high"],
      [clause_id |-> "2024_PROCUREMENT_RULE_12_CLAUSE_1",
       transaction_types |-> <<"construction", "procurement", "services">>,
       amount_threshold |-> 1000000,
       min_bids |-> 3,
       required_documents |-> <<tag_bid_summary>>,
       severity |-> "high"],
      [clause_id |-> "CLAUSE_NO_CHECKS",
       transaction_types |-> <<"construction">>,
       amount_threshold |-> 1000000,
       required_documents |-> <<>>,
       severity |-> "medium"],
      [clause_id |-> "CLAUSE_ALL_CHECKS",
       transaction_types |-> <<"procurement", "construction">>,
       amount_threshold |-> 2500000,
       tax_rate |-> 18,
       min_bids |-> 3,
       required_documents |-> <<tag_project_order>>,
       severity |-> "medium"] }

TransactionUniverse ==
    { [id |-> "TXN_2024_FINANCE_00145",
       vendor_name |-> "ABC Infrastructure Ltd.",
       amount |-> 2500000, category |-> "construction", tax_paid |-> 125000,
       bids_count |-> 2, documents_attached |-> <<doc_invoice_pdf, doc_grn_pdf>>],
      [id |-> "TXN_2024_FINANCE_00146",
       vendor_name |-> "TechSoft Solutions",
       amount |-> 500000, category |-> "software", tax_paid |-> 90000,
       bids_count |-> 1, documents_attached |-> <<doc_invoice_pdf, doc_contract_pdf>>],
      [id |-> "TXN_WITHIN_TOLERANCE",
       vendor_name |-> "ABC Infrastructure Ltd.",
       amount |-> 2500000, category |-> "construction", tax_paid |-> 430000,
       bids_count |-> 3, documents_attached |-> <<doc_project_order_2024_pdf>>],
      [id |-> "TXN_UNDERPAID",
       vendor_name |-> "ABC Infrastructure Ltd.",
       amount |-> 2500000, category |-> "construction", tax_paid |-> 400000,
       documents_attached |-> <<doc_Invoice_pdf, doc_GRN_pdf>>],
      [id |-> "TXN_BELOW_THRESHOLD",
       vendor_name |-> "ABC Infrastructure Ltd.",
       amount |-> 999999, category |-> "construction", tax_paid |-> 0,
       documents_attached |-> <<>>],
      [id |-> "TXN_AT_THRESHOLD",
       vendor_name |-> "ABC Infrastructure Ltd.",
       amount |-> 1000000, category |-> "construction", tax_paid |-> 171000,
       bids_count |-> 0,
       documents_attached |-> <<doc_Vendor_Cert_PDF, doc_invoice_pdf, doc_Bid_Summary_xlsx>>],
      [id |-> "TXN_OTHER_CATEGORY",
       vendor_name |-> "TechSoft Solutions",
       amount |-> 2500000, category |-> "software", tax_paid |-> 0,
       documents_attached |-> <<>>],
      [id |-> "TXN_OVERPAID",
       vendor_name |-> "ABC Infrastructure Ltd.",
       amount |-> 1000000, category |-> "construction", tax_paid |-> 200000,
       bids_count |-> 3, documents_attached |-> <<doc_project_order_2024_pdf>>] }

(* All lists of at most n elements of S without repetition: clause_id and   *)
(* the transaction id are keys, and the pipeline store keeps one entry per *)
(* key.                                                                    *)
SeqsUpTo(S, n) ==
    { s \in UNION { [1..k -> S] : k \in 0..n } :
        \A i, j \in DOMAIN s : i # j => s[i] # s[j] }

ClauseLists == SeqsUpTo(ClauseUniverse, MaxClauses)
TransactionLists == SeqsUpTo(TransactionUniverse, MaxTransactions)

(* The Automation feature's local schema: AutomationClause has the fields  *)
(* of ParsedClause that the evaluator reads; AutomationTransaction is      *)
(* keyed by transaction_id, its id being optional (absent here).           *)
toAutomationTransaction(t) ==
    [f \in (DOMAIN t \ {"id"}) \cup {"transaction_id"} |->
        IF f = "transaction_id" THEN t.id ELSE t[f]]

AutomationTransactionUniverse == { toAutomationTransaction(t) : t \in TransactionUniverse }

AutomationTransactionLists == SeqsUpTo(AutomationTransactionUniverse, MaxTransactions)

(***************************************************************************)
(* runAgent4Simulation, one clause against one transaction.                *)
(***************************************************************************)
(* Variant: the threshold taken as exclusive (amount > threshold). *)
isApplicableExclusive(clause, txn) ==
    /\ arrayIncludes(clause.transaction_types, txn.category)
    /\ txn.amount > clause.amount_threshold

(* 1. Check applicability *)
isApplicable(clause, txn) ==
    /\ arrayIncludes(clause.transaction_types, txn.category)
    /\ ~(txn.amount < clause.amount_threshold)

(* const expectedTax = (txn.amount * clause.tax_rate) / 100.  Every amount *)
(* and rate of the input universes gives a whole number here.              *)
expectedTaxOf(clause, txn) == (txn.amount * clause.tax_rate) \div 100

(* Variant: a 5% band on both sides, so that over-payment is flagged too. *)
taxOutsideTolerance(clause, txn) ==
    \/ txn.tax_paid * 2000 < txn.amount * clause.tax_rate * 19
    \/ txn.tax_paid * 2000 > txn.amount * clause.tax_rate * 21

(* txn.tax_paid < expectedTax * 0.95, exactly:                             *)
(*   tax_paid < amount * rate / 100 * 95 / 100                              *)
(*   <=>  tax_paid * 2000 < amount * rate * 19                              *)
taxBelowTolerance(clause, txn) ==
    txn.tax_paid * 2000 < txn.amount * clause.tax_rate * 19

(* 2. TAX_MISMATCH: the violations the tax check pushes (none or one). *)
taxMismatch(clause, txn) ==
    IF "tax_rate" \in DOMAIN clause /\ taxBelowTolerance(clause, txn)
    THEN << [type |-> "TAX_MISMATCH",
             clause_id |-> clause.clause_id,
             severity |-> clause.severity,
             description |-> <<"Tax mismatch: Expected ", expectedTaxOf(clause, txn),
                               ", claimed ", txn.tax_paid>>,
             expected_tax |-> expectedTaxOf(clause, txn),
             claimed_tax |-> txn.tax_paid,
             corrective_action |-> <<"Adjust tax to ", expectedTaxOf(clause, txn)>>] >>
    ELSE <<>>

(* const actualBids = txn.bids_count || 0 *)
actualBidsOf(txn) == IF "bids_count" \in DOMAIN txn THEN txn.bids_count ELSE 0

(* Variant: clause.min_bids ?? 1, a default of one bid for a clause that   *)
(* defines no min_bids.                                                    *)
biddingRequirementDefaulted(clause, txn) ==
    LET minBids == IF "min_bids" \in DOMAIN clause THEN clause.min_bids ELSE 1
    IN  IF actualBidsOf(txn) < minBids
        THEN << [type |-> "BIDDING_REQUIREMENT",
                 clause_id |-> clause.clause_id,
                 severity |-> clause.severity,
                 description |-> <<"Requires ", minBids,
                                   " competitive bids; only ", actualBidsOf(txn), " found">>,
                 expected_bids |-> minBids,
                 actual_bids |-> actualBidsOf(txn),
                 corrective_action |-> <<"Obtain ", minBids - actualBidsOf(txn),
                                         " more competitive bid(s)">>] >>
        ELSE <<>>

(* Variant: actualBids <= min_bids, flagging a transaction that has        *)
(* exactly the required number of bids.                                    *)
biddingRequirementInclusive(clause, txn) ==
    IF "min_bids" \in DOMAIN clause /\ actualBidsOf(txn) <= clause.min_bids
    THEN << [type |-> "BIDDING_REQUIREMENT",
             clause_id |-> clause.clause_id,
             severity |-> clause.severity,
             description |-> <<"Requires ", clause.min_bids,
                               " competitive bids; only ", actualBidsOf(txn), " found">>,
             expected_bids |-> clause.min_bids,
             actual_bids |-> actualBidsOf(txn),
             corrective_action |-> <<"Obtain ", clause.min_bids - actualBidsOf(txn),
                                     " more competitive bid(s)">>] >>
    ELSE <<>>

(* 3. BIDDING_REQUIREMENT: the violations the bidding check pushes. *)
biddingRequirement(clause, txn) ==
    IF "min_bids" \in DOMAIN clause /\ actualBidsOf(txn) < clause.min_bids
    THEN << [type |-> "BIDDING_REQUIREMENT",
             clause_id |-> clause.clause_id,
             severity |-> clause.severity,
             description |-> <<"Requires ", clause.min_bids,
                               " competitive bids; only ", actualBidsOf(txn), " found">>,
             expected_bids |-> clause.min_bids,
             actual_bids |-> actualBidsOf(txn),
             corrective_action |-> <<"Obtain ", clause.min_bids - actualBidsOf(txn),
                                     " more competitive bid(s)">>] >>
    ELSE <<>>

(* Variant: a case-sensitive match, without toLowerCase. *)
hasDocCaseSensitive(txn, reqDoc) ==
    \E i \in DOMAIN txn.documents_attached :
        includes(txn.documents_attached[i], reqDoc)

(* const hasDoc = txn.documents_attached.some(doc =>                       *)
(*                  doc.toLowerCase().includes(reqDoc.toLowerCase()))      *)
hasDoc(txn, reqDoc) ==
    \E i \in DOMAIN txn.documents_attached :
        includes(toLowerCase(txn.documents_attached[i]), toLowerCase(reqDoc))

(* 4. MISSING_DOCUMENT: clause.required_documents.forEach, from tag k on. *)
RECURSIVE missingDocumentFrom(_, _, _)
missingDocumentFrom(clause, txn, k) ==
    IF k > Len(clause.required_documents) THEN <<>>
    ELSE LET reqDoc == clause.required_documents[k]
             pushed == IF ~hasDoc(txn, reqDoc)
                       THEN << [type |-> "MISSING_DOCUMENT",
                                clause_id |-> clause.clause_id,
                                severity |-> clause.severity,
                                required_doc |-> reqDoc,
                                description |-> <<"Required document '", reqDoc,
                                                  "' is missing">>,
                                corrective_action |-> <<"Attach ", reqDoc,
                                                        " to transaction">>] >>
                       ELSE <<>>
         IN  pushed \o missingDocumentFrom(clause, txn, k + 1)

(* Variant: the document check stops at the first missing tag. *)
missingDocumentFirstOnly(clause, txn) ==
    IF Len(clause.required_documents) > 0
    THEN LET missing == missingDocumentFrom(clause, txn, 1)
         IN  IF missing = <<>> THEN <<>> ELSE <<Head(missing)>>
    ELSE <<>>

missingDocument(clause, txn) ==
    IF Len(clause.required_documents) > 0
    THEN missingDocumentFrom(clause, txn, 1)
    ELSE <<>>

(* Variant: the document check placed before the tax and bidding checks. *)
clauseViolationsDocumentsFirst(clause, txn) ==
    IF ~isApplicable(clause, txn) THEN <<>>
    ELSE missingDocument(clause, txn)
           \o taxMismatch(clause, txn)
           \o biddingRequirement(clause, txn)

(* The body of clauses.forEach(clause => ...): what one clause pushes. *)
clauseViolations(clause, txn) ==
    IF ~isApplicable(clause, txn) THEN <<>>
    ELSE taxMismatch(clause, txn)
           \o biddingRequirement(clause, txn)
           \o missingDocument(clause, txn)

(* clauses.forEach from clause k on: the violations list in push order. *)
RECURSIVE violationsFrom(_, _, _)
violationsFrom(cls, txn, k) ==
    IF k > Len(cls) THEN <<>>
    ELSE clauseViolations(cls[k], txn) \o violationsFrom(cls, txn, k + 1)

(***************************************************************************)
(* Risk score.  riskScoreOf is Math.min(violationCount * 0.3, 0.99) as the *)
(* double the code computes, in units of 1/10000 truncated: 0.3, 0.6, 0.9, *)
(* 1.2 and 0.99 have no exact binary representation and the doubles        *)
(* computed for them lie just below (0.8999999999999999 for 3 * 0.3);      *)
(* times03 is exact for the counts up to 13 that the inputs can produce.   *)
(* toFixed2 is parseFloat(x.toFixed(2)): round to the nearest hundredth;   *)
(* its result is in hundredths.                                            *)
(***************************************************************************)
times03(n) == IF n = 0 THEN 0 ELSE IF n \in {5, 7, 10} THEN n * 3000 ELSE n * 3000 - 1

mathMin(a, b) == IF a < b THEN a ELSE b

riskScoreOf(violationCount) == mathMin(times03(violationCount), 9899)

(* Variant: truncation to two decimals instead of rounding. *)
toFixed2Truncating(x) == x \div 100

toFixed2(x) == (x + 50) \div 100

(***************************************************************************)
(* runAgent4Simulation(clauses, transactions), evaluated when the clock    *)
(* reads now.  First copy: the result's transaction_id is txn.id.          *)
(***************************************************************************)
(* Variant: the violations array declared outside the function, so that a *)
(* later call appends to what the earlier calls pushed.                    *)
agent4ResultSharedArray(cls, txn, txnId, now) ==
    LET pushed == violationsFrom(cls, txn, 1)
        violations == IF now > 0 THEN pushed \o pushed ELSE pushed
        violationCount == Len(violations)
        riskScore == riskScoreOf(violationCount)
    IN  [transaction_id |-> txnId,
         compliance_status |-> IF violationCount > 0 THEN "VIOLATION" ELSE "COMPLIANT",
         violations |-> violations,
         overall_risk_score |-> toFixed2(riskScore),
         checked_at |-> now]

(* Variant: VIOLATION only from the second violation on. *)
agent4ResultStatusLate(cls, txn, txnId, now) ==
    LET violations == violationsFrom(cls, txn, 1)
        violationCount == Len(violations)
        riskScore == riskScoreOf(violationCount)
    IN  [transaction_id |-> txnId,
         compliance_status |-> IF violationCount > 1 THEN "VIOLATION" ELSE "COMPLIANT",
         violations |-> violations,
         overall_risk_score |-> toFixed2(riskScore),
         checked_at |-> now]

agent4Result(cls, txn, txnId, now) ==
    LET violations == violationsFrom(cls, txn, 1)
        violationCount == Len(violations)
        riskScore == riskScoreOf(violationCount)
    IN  [transaction_id |-> txnId,
         compliance_status |-> IF violationCount > 0 THEN "VIOLATION" ELSE "COMPLIANT",
         violations |-> violations,
         overall_risk_score |-> toFixed2(riskScore),
         checked_at |-> now]

(* Variant: only the transactions that have violations get a result. *)
runAgent4SimulationViolationsOnly(cls, txns, now) ==
    SelectSeq([i \in 1..Len(txns) |-> agent4Result(cls, txns[i], txns[i].id, now)],
              LAMBDA r : r.compliance_status = "VIOLATION")

runAgent4Simulation(cls, txns, now) ==
    [i \in 1..Len(txns) |-> agent4Result(cls, txns[i], txns[i].id, now)]

(* Second copy (the Automation feature's schema): transaction_id is        *)
(* txn.transaction_id; the rest of the body is the same text.              *)
runAgent4SimulationAutomation(cls, txns, now) ==
    [i \in 1..Len(txns) |-> agent4Result(cls, txns[i], txns[i].transaction_id, now)]

(***************************************************************************)
(* runAgent5Simulation(results, transactions): one audit report per result *)
(* whose compliance_status is VIOLATION.  A call either returns its list   *)
(* of reports or ends with an exception; the only exception the body can   *)
(* raise is the runtime's TypeError for reading a property of undefined.   *)
(***************************************************************************)
(* An undefined value: a record with none of the fields of a transaction. *)
undefined == [undefined |-> TRUE]

Return(value) == [kind |-> "return", value |-> value]

Throw(error) == [kind |-> "throw", error |-> error]

(* transactions.find(t => t.id === res.transaction_id): the first match,   *)
(* undefined if there is none (the trailing ! is erased at compile time).  *)
findById(txns, id) ==
    IF \E i \in DOMAIN txns : txns[i].id = id
    THEN txns[CHOOSE i \in DOMAIN txns :
                 /\ txns[i].id = id
                 /\ \A j \in 1..(i - 1) : txns[j].id # id]
    ELSE undefined

(* Second copy: transactions.find(t => t.transaction_id === res.transaction_id). *)
findByTransactionId(txns, id) ==
    IF \E i \in DOMAIN txns : txns[i].transaction_id = id
    THEN txns[CHOOSE i \in DOMAIN txns :
                 /\ txns[i].transaction_id = id
                 /\ \A j \in 1..(i - 1) : txns[j].transaction_id # id]
    ELSE undefined

(* Variant: every result is reported, compliant ones included. *)
violatingResultsUnfiltered(rs) == rs

(* results.filter(r => r.compliance_status === "VIOLATION") *)
violatingResults(rs) == SelectSeq(rs, LAMBDA r : r.compliance_status = "VIOLATION")

(* Variant: three priority levels, LOW for a low severity. *)
recommendationOfThreeLevels(v) ==
    [violation_type |-> v.type,
     action |-> IF "corrective_action" \in DOMAIN v /\ v.corrective_action # <<>>
                THEN v.corrective_action ELSE <<"Review transaction">>,
     priority |-> IF v.severity = "high" THEN "HIGH"
                  ELSE IF v.severity = "medium" THEN "MEDIUM" ELSE "LOW",
     deadline |-> IF v.severity = "high" THEN "Immediate" ELSE "7-14 days"]

(* res.violations.map(v => ({...})): the recommendation of one violation.  *)
(* v.corrective_action || "Review transaction": the fallback is taken for  *)
(* an absent or empty corrective_action.                                   *)
recommendationOf(v) ==
    [violation_type |-> v.type,
     action |-> IF "corrective_action" \in DOMAIN v /\ v.corrective_action # <<>>
                THEN v.corrective_action ELSE <<"Review transaction">>,
     priority |-> IF v.severity = "high" THEN "HIGH" ELSE "MEDIUM",
     deadline |-> IF v.severity = "high" THEN "Immediate" ELSE "7-14 days"]

(* Math.round(res.overall_risk_score * 100): the score is kept in          *)
(* hundredths, and every product score * 100 of a two-decimal score up to  *)
(* 0.99 rounds to that whole number of hundredths.                         *)
riskLevelPercent(score) == score

(* The report literal of one violating result and its transaction. *)
auditReport(res, txn) ==
    [report_id |-> <<"RPT_", res.transaction_id>>,
     transaction_id |-> res.transaction_id,
     status |-> res.compliance_status,
     summary |-> <<"Transaction ", res.transaction_id, " has ", Len(res.violations),
                   " compliance violation(s). Risk level: ",
                   riskLevelPercent(res.overall_risk_score),
                   "%. Immediate corrective actions required.">>,
     violations |-> res.violations,
     recommendations |-> [k \in 1..Len(res.violations) |-> recommendationOf(res.violations[k])],
     risk_score |-> res.overall_risk_score,
     transaction_details |-> [amount |-> txn.amount,
                              vendor |-> txn.vendor_name,
                              category |-> txn.category,
                              tax_paid |-> txn.tax_paid]]

(* .map(res => {...}) over the violating results, found[i] being what find *)
(* returned for the i-th of them: txn.amount of an undefined txn raises a  *)
(* TypeError, which ends the whole call.                                   *)
mapReports(violating, found) ==
    IF \E i \in DOMAIN violating : found[i] = undefined
    THEN Throw("TypeError")
    ELSE Return([i \in 1..Len(violating) |-> auditReport(violating[i], found[i])])

runAgent5Simulation(rs, txns) ==
    LET violating == violatingResults(rs)
    IN  mapReports(violating,
                   [i \in 1..Len(violating) |-> findById(txns, violating[i].transaction_id)])

runAgent5SimulationAutomation(rs, txns) ==
    LET violating == violatingResults(rs)
    IN  mapReports(violating,
                   [i \in 1..Len(violating) |->
                       findByTransactionId(txns, violating[i].transaction_id)])

(***************************************************************************)
(* checkCompliance(transaction, clauses): ComplianceClause records with a  *)
(* category and a parameters record, transactions with bids_received and   *)
(* documents.  parameters.rate is a fraction in the code (0.18); here it   *)
(* is in hundredths (18), and risk_score is in hundredths.                 *)
(***************************************************************************)
(* clause.parameters.min_amount || 0 *)
minAmountOf(clause) ==
    IF "min_amount" \in DOMAIN clause.parameters THEN clause.parameters.min_amount ELSE 0

(* clause.parameters.rate || 0, in hundredths *)
rateOf(clause) ==
    IF "rate" \in DOMAIN clause.parameters THEN clause.parameters.rate ELSE 0

(* clause.parameters.min_bids || 0 *)
minBidsOf(clause) ==
    IF "min_bids" \in DOMAIN clause.parameters THEN clause.parameters.min_bids ELSE 0

abs(x) == IF x < 0 THEN 0 - x ELSE x

(* 1. Check Tax Mismatch: Math.abs(tax_paid - amount * rate) > 100 *)
ccTaxMismatch(transaction, clause) ==
    /\ clause.category = "TAX"
    /\ "applicable_types" \in DOMAIN clause.parameters
    /\ arrayIncludes(clause.parameters.applicable_types, transaction.category)
    /\ transaction.amount >= minAmountOf(clause)
    /\ abs(transaction.tax_paid * 100 - transaction.amount * rateOf(clause)) > 100 * 100

(* 2. Check Bidding Requirements *)
ccBiddingRequirement(transaction, clause) ==
    /\ clause.category = "BIDDING"
    /\ transaction.amount >= minAmountOf(clause)
    /\ transaction.bids_received < minBidsOf(clause)

(* 3. Check Documentation: missingDocs, with a case-sensitive includes *)
ccMissingDocs(transaction, clause) ==
    IF "required_docs" \in DOMAIN clause.parameters
    THEN SelectSeq(clause.parameters.required_docs,
                   LAMBDA doc : ~(\E i \in DOMAIN transaction.documents :
                                     includes(transaction.documents[i], doc)))
    ELSE <<>>

ccMissingDocument(transaction, clause) ==
    /\ clause.category = "DOCUMENTATION"
    /\ Len(ccMissingDocs(transaction, clause)) > 0

ccViolation(clause, type, description) ==
    [rule_id |-> clause.id, type |-> type,
     description |-> description, severity |-> clause.severity]

(* What one clause pushes onto violations, in the order of the checks. *)
ccClauseViolations(transaction, clause) ==
    (IF ccTaxMismatch(transaction, clause)
     THEN << ccViolation(clause, "TAX_MISMATCH",
                <<"Expected tax ", (transaction.amount * rateOf(clause)) \div 100,
                  ", paid ", transaction.tax_paid>>) >>
     ELSE <<>>)
    \o
    (IF ccBiddingRequirement(transaction, clause)
     THEN << ccViolation(clause, "BIDDING_REQUIREMENT",
                <<"Required ", minBidsOf(clause),
                  " bids, found ", transaction.bids_received>>) >>
     ELSE <<>>)
    \o
    (IF ccMissingDocument(transaction, clause)
     THEN << ccViolation(clause, "MISSING_DOCUMENT",
                <<"Missing required documents: ", ccMissingDocs(transaction, clause)>>) >>
     ELSE <<>>)

(* What one clause adds to riskScore: 0.4, 0.3, 0.2 per check that fired. *)
ccClauseRisk(transaction, clause) ==
    (IF ccTaxMismatch(transaction, clause) THEN 40 ELSE 0)
    + (IF ccBiddingRequirement(transaction, clause) THEN 30 ELSE 0)
    + (IF ccMissingDocument(transaction, clause) THEN 20 ELSE 0)

RECURSIVE ccViolationsFrom(_, _, _)
ccViolationsFrom(transaction, cls, k) ==
    IF k > Len(cls) THEN <<>>
    ELSE ccClauseViolations(transaction, cls[k]) \o ccViolationsFrom(transaction, cls, k + 1)

RECURSIVE ccRiskFrom(_, _, _)
ccRiskFrom(transaction, cls, k) ==
    IF k > Len(cls) THEN 0
    ELSE ccClauseRisk(transaction, cls[k]) + ccRiskFrom(transaction, cls, k + 1)

(* Variant: the cap of the canonical evaluator, 0.99. *)
checkComplianceCap099(transaction, cls, now) ==
    LET violations == ccViolationsFrom(transaction, cls, 1)
        riskScore == mathMin(ccRiskFrom(transaction, cls, 1), 99)
    IN  [transaction_id |-> transaction.id,
         is_compliant |-> (Len(violations) = 0),
         violations |-> violations,
         risk_score |-> riskScore,
         timestamp |-> now]

checkCompliance(transaction, cls, now) ==
    LET violations == ccViolationsFrom(transaction, cls, 1)
        riskScore == mathMin(ccRiskFrom(transaction, cls, 1), 100)
    IN  [transaction_id |-> transaction.id,
         is_compliant |-> (Len(violations) = 0),
         violations |-> violations,
         risk_score |-> riskScore,
         timestamp |-> now]

(* AutomationPage.processStep4: one checkCompliance per transaction. *)
processStep4Results(cls, txns, now) ==
    [i \in 1..Len(txns) |-> checkCompliance(txns[i], cls, now)]

(***************************************************************************)
(* Inputs of checkCompliance: the mock clauses and transactions of the     *)
(* Automation page, and transactions that differ from them in one field.   *)
(***************************************************************************)
MOCK_CLAUSES ==
    << [id |-> "CLAUSE_GST_INFRA_18", category |-> "TAX",
        parameters |-> [rate |-> 18, min_amount |-> 1000000,
                        applicable_types |-> <<"construction", "infrastructure">>],
        severity |-> "CRITICAL"],
       [id |-> "CLAUSE_BID_MIN_3", category |-> "BIDDING",
        parameters |-> [min_bids |-> 3, min_amount |-> 1000000],
        severity |-> "HIGH"],
       [id |-> "CLAUSE_DOC_ORDER", category |-> "DOCUMENTATION",
        parameters |-> [required_docs |-> <<tag_project_order>>],
        severity |-> "MEDIUM"] >>

MOCK_TRANSACTIONS ==
    << [id |-> "TXN_2024_FINANCE_00145", amount |-> 2500000, category |-> "construction",
        tax_paid |-> 125000, bids_received |-> 2,
        documents |-> <<doc_invoice_pdf, doc_grn_pdf>>],
       [id |-> "TXN_2024_FINANCE_00146", amount |-> 500000, category |-> "software",
        tax_paid |-> 90000, bids_received |-> 3,
        documents |-> <<doc_invoice_pdf, tag_vendor_cert>>] >>

(* Clauses of the categories BIDDING and DOCUMENTATION whose parameters     *)
(* give applicable_types and min_amount as well.                           *)
GATED_CLAUSES ==
    << [id |-> "CLAUSE_BID_CONSTRUCTION", category |-> "BIDDING",
        parameters |-> [min_bids |-> 3, min_amount |-> 1000000,
                        applicable_types |-> <<"construction">>],
        severity |-> "HIGH"],
       [id |-> "CLAUSE_DOC_CONSTRUCTION", category |-> "DOCUMENTATION",
        parameters |-> [required_docs |-> <<tag_project_order>>, min_amount |-> 1000000,
                        applicable_types |-> <<"construction">>],
        severity |-> "MEDIUM"] >>

ComplianceClauseUniverse ==
    { MOCK_CLAUSES[i] : i \in DOMAIN MOCK_CLAUSES }
    \cup { GATED_CLAUSES[i] : i \in DOMAIN GATED_CLAUSES }

ComplianceTransactionUniverse ==
    { MOCK_TRANSACTIONS[i] : i \in DOMAIN MOCK_TRANSACTIONS }
    \cup
    { [id |-> "TXN_EXACT_TAX", amount |-> 2500000, category |-> "construction",
       tax_paid |-> 450000, bids_received |-> 3,
       documents |-> <<doc_project_order_2024_pdf>>],
      [id |-> "TXN_OVERPAID_TAX", amount |-> 2500000, category |-> "construction",
       tax_paid |-> 500000, bids_received |-> 3,
       documents |-> <<doc_invoice_pdf>>] }

ComplianceClauseLists ==
    SeqsUpTo(ComplianceClauseUniverse, MaxClauses)
    \cup { MOCK_CLAUSES, MOCK_CLAUSES \o GATED_CLAUSES }

ComplianceTransactionLists == SeqsUpTo(ComplianceTransactionUniverse, MaxTransactions)

(***************************************************************************)
(* State.                                                                  *)
(*   schema        which record types the loaded data has, and so which    *)
(*                 evaluator it can be passed to: "ParsedClause" (the      *)
(*                 first copy of runAgent4Simulation), "AutomationClause"  *)
(*                 (its second copy) or "ComplianceClause"                 *)
(*                 (checkCompliance)                                       *)
(*   clauses, transactions   the loaded data, never changed by evaluation  *)
(*   calls         the evaluations made so far, oldest first: which        *)
(*                 function ran and what it returned (in SpecStore: the    *)
(*                 addAuditReport calls and their argument)                *)
(*   results, reportTransactions, reports   the arguments of               *)
(*                 runAgent5Simulation and what the call came to           *)
(*   auditReports  the store's auditReports list                           *)
(*   hook, progress, isRunning, finalReport, runs, event   the             *)
(*                 orchestration hook (described with SpecRunner)          *)
(* new Date() reads a clock that has moved on between two calls: the       *)
(* number of calls made so far stands for it.                              *)
(***************************************************************************)
Now == Len(calls)

(* No call of runAgent5Simulation was made. *)
NotCalled == [kind |-> "none"]

(* A null value (finalReport before a run has completed). *)
null == [null |-> TRUE]

(* No orchestration hook is mounted. *)
NoHook ==
    /\ hook = "none"
    /\ progress = [step |-> "idle"]
    /\ isRunning = FALSE
    /\ finalReport = null
    /\ runs = <<>>
    /\ event = [kind |-> "none"]

(* callAgent of useMasterAgent has not been called: the refs of a freshly  *)
(* mounted hook, no request sent.                                          *)
NoService ==
    /\ clock = 0
    /\ lastCallAt = 0
    /\ isPaused = FALSE
    /\ pauseResolve = 0
    /\ agentCalls = <<>>
    /\ sent = [kind |-> "none"]
    /\ mapping = [pc |-> "notStarted"]
    /\ isLoading = FALSE
    /\ streamRuns = <<>>
    /\ regulations = <<>>
    /\ aiResponse = NotCalled
    /\ response = NotCalled

Init ==
    /\ NoService
    /\ calls = <<>>
    /\ results = <<>>
    /\ reportTransactions = <<>>
    /\ reports = NotCalled
    /\ auditReports = <<>>
    /\ NoHook
    /\ \/ /\ schema = "ParsedClause"
          /\ clauses \in ClauseLists
          /\ transactions \in TransactionLists
       \/ /\ schema = "AutomationClause"
          /\ clauses \in ClauseLists
          /\ transactions \in AutomationTransactionLists
       \/ /\ schema = "ComplianceClause"
          /\ clauses \in ComplianceClauseLists
          /\ transactions \in ComplianceTransactionLists

Returned(fn, out) ==
    /\ calls' = Append(calls, [fn |-> fn, out |-> out])
    /\ UNCHANGED <<schema, clauses, transactions, results, reportTransactions, reports,
                   auditReports, hookVars, serviceVars>>

RunAgent4Simulation ==
    /\ schema = "ParsedClause"
    /\ Len(calls) < MaxCalls
    /\ Returned("runAgent4Simulation", runAgent4Simulation(clauses, transactions, Now))

RunAgent4SimulationAutomation ==
    /\ schema = "AutomationClause"
    /\ Len(calls) < MaxCalls
    /\ Returned("runAgent4SimulationAutomation",
                runAgent4SimulationAutomation(clauses, transactions, Now))

ProcessStep4 ==
    /\ schema = "ComplianceClause"
    /\ Len(calls) < MaxCalls
    /\ Returned("checkCompliance", processStep4Results(clauses, transactions, Now))

Next ==
    \/ RunAgent4Simulation
    \/ RunAgent4SimulationAutomation
    \/ ProcessStep4

Spec == Init /\ [][Next]_vars

(***************************************************************************)
(* Report synthesis.  results is what the compliance mapping returned for  *)
(* clauses and transactions; the transactions list handed to               *)
(* runAgent5Simulation is that list, or that list short of its first or of *)
(* its last transaction.  The clauses include one of low severity.         *)
(***************************************************************************)
ReportClauseUniverse ==
    ClauseUniverse \cup
    { [clause_id |-> "CLAUSE_LOW_SEVERITY",
       transaction_types |-> <<"software", "construction">>,
       amount_threshold |-> 500000,
       min_bids |-> 2,
       required_documents |-> <<tag_project_order>>,
       severity |-> "low"] }

ReportClauseLists == SeqsUpTo(ReportClauseUniverse, MaxClauses)

Front(s) == SubSeq(s, 1, Len(s) - 1)

InitReport ==
    /\ NoService
    /\ calls = <<>>
    /\ auditReports = <<>>
    /\ NoHook
    /\ reports = NotCalled
    /\ clauses \in ReportClauseLists
    /\ \/ /\ schema = "ParsedClause"
          /\ transactions \in TransactionLists
          /\ results = runAgent4Simulation(clauses, transactions, 0)
       \/ /\ schema = "AutomationClause"
          /\ transactions \in AutomationTransactionLists
          /\ results = runAgent4SimulationAutomation(clauses, transactions, 0)
    /\ reportTransactions \in
          {transactions} \cup
          (IF transactions = <<>> THEN {} ELSE {Tail(transactions), Front(transactions)})

RunAgent5Simulation ==
    /\ schema = "ParsedClause"
    /\ reports = NotCalled
    /\ reports' = runAgent5Simulation(results, reportTransactions)
    /\ UNCHANGED <<schema, clauses, transactions, calls, results, reportTransactions,
                   auditReports, hookVars, serviceVars>>

RunAgent5SimulationAutomation ==
    /\ schema = "AutomationClause"
    /\ reports = NotCalled
    /\ reports' = runAgent5SimulationAutomation(results, reportTransactions)
    /\ UNCHANGED <<schema, clauses, transactions, calls, results, reportTransactions,
                   auditReports, hookVars, serviceVars>>

NextReport ==
    \/ RunAgent5Simulation
    \/ RunAgent5SimulationAutomation

SpecReport == InitReport /\ [][NextReport]_vars

(***************************************************************************)
(* The pipeline store's audit reports.  calls is the log of the            *)
(* addAuditReport calls, each with the report it was given.  The reports   *)
(* are the ones runAgent5Simulation builds for three transactions under    *)
(* the GST rule and under the minimum-bids rule: two reports of different  *)
(* content for each transaction, with the same report_id.                  *)
(***************************************************************************)
Range(s) == { s[i] : i \in DOMAIN s }

StoreTransactions ==
    << CHOOSE t \in TransactionUniverse : t.id = "TXN_2024_FINANCE_00145",
       CHOOSE t \in TransactionUniverse : t.id = "TXN_UNDERPAID",
       CHOOSE t \in TransactionUniverse : t.id = "TXN_AT_THRESHOLD" >>

AuditReportUniverse ==
    UNION { Range(runAgent5Simulation(runAgent4Simulation(<<c>>, StoreTransactions, 0),
                                      StoreTransactions).value) :
              c \in { k \in ClauseUniverse : k.severity = "high" } }

(* Variant: the report is appended and nothing is filtered out. *)
addAuditReportAppending(prev, report) == Append(prev, report)

(* setAuditReports(prev => ...): the updater of addAuditReport. *)
addAuditReport(prev, report) ==
    LET newIds == {report.report_id}
    IN  SelectSeq(prev, LAMBDA r : r.report_id \notin newIds) \o <<report>>

InitStore ==
    /\ NoService
    /\ schema = "PipelineStore"
    /\ clauses = <<>>
    /\ transactions = <<>>
    /\ calls = <<>>
    /\ results = <<>>
    /\ reportTransactions = <<>>
    /\ reports = NotCalled
    /\ auditReports = <<>>
    /\ NoHook

AddAuditReport ==
    /\ schema = "PipelineStore"
    /\ Len(calls) < MaxStoreCalls
    /\ \E report \in AuditReportUniverse :
          /\ auditReports' = addAuditReport(auditReports, report)
          /\ calls' = Append(calls, [fn |-> "addAuditReport", arg |-> report])
    /\ UNCHANGED <<schema, clauses, transactions, results, reportTransactions, reports,
                   hookVars, serviceVars>>

NextStore == AddAuditReport

SpecStore == InitStore /\ [][NextStore]_vars

(***************************************************************************)
(* The batch adders of the store.  regulations, clauses (parsedClauses),   *)
(* transactions, results (complianceResults) and auditReports are the five *)
(* collections; an entry is its key and a content.  A batch has up to      *)
(* MaxBatch entries and may repeat a key.                                  *)
(***************************************************************************)
Batches(key) ==
    UNION { [1..n -> { (key :> k) @@ ("content" :> c) : k \in {"k1", "k2"},
                                                        c \in {"a", "b"} }] :
            n \in 0..MaxBatch }

(* setRegulations(prev => ...): the updater of addRegulations. *)
addRegulations(prev, regs) ==
    LET newIds == { regs[i].id : i \in DOMAIN regs }
    IN  SelectSeq(prev, LAMBDA r : r.id \notin newIds) \o regs

(* setParsedClauses(prev => ...): the updater of addParsedClauses. *)
addParsedClauses(prev, cls) ==
    LET newIds == { cls[i].clause_id : i \in DOMAIN cls }
    IN  SelectSeq(prev, LAMBDA c : c.clause_id \notin newIds) \o cls

(* setTransactions(prev => ...): the updater of addTransactions. *)
addTransactions(prev, txns) ==
    LET newIds == { txns[i].id : i \in DOMAIN txns }
    IN  SelectSeq(prev, LAMBDA t : t.id \notin newIds) \o txns

(* setComplianceResults(prev => ...): the updater of addComplianceResults. *)
addComplianceResults(prev, rs) ==
    LET newIds == { rs[i].transaction_id : i \in DOMAIN rs }
    IN  SelectSeq(prev, LAMBDA r : r.transaction_id \notin newIds) \o rs

AddRegulations ==
    /\ schema = "PipelineStore"
    /\ Len(calls) < MaxStoreCalls
    /\ \E regs \in Batches("id") :
          /\ regulations' = addRegulations(regulations, regs)
          /\ calls' = Append(calls, [fn |-> "addRegulations", arg |-> regs])
    /\ UNCHANGED <<schema, clauses, transactions, results, reportTransactions, reports,
                   auditReports, hookVars, agentVars, mapping, isLoading, streamRuns,
                   aiResponse, response>>

AddParsedClauses ==
    /\ schema = "PipelineStore"
    /\ Len(calls) < MaxStoreCalls
    /\ \E cls \in Batches("clause_id") :
          /\ clauses' = addParsedClauses(clauses, cls)
          /\ calls' = Append(calls, [fn |-> "addParsedClauses", arg |-> cls])
    /\ UNCHANGED <<schema, transactions, results, reportTransactions, reports,
                   auditReports, hookVars, serviceVars>>

AddTransactions ==
    /\ schema = "PipelineStore"
    /\ Len(calls) < MaxStoreCalls
    /\ \E txns \in Batches("id") :
          /\ transactions' = addTransactions(transactions, txns)
          /\ calls' = Append(calls, [fn |-> "addTransactions", arg |-> txns])
    /\ UNCHANGED <<schema, clauses, results, reportTransactions, reports,
                   auditReports, hookVars, serviceVars>>

AddComplianceResults ==
    /\ schema = "PipelineStore"
    /\ Len(calls) < MaxStoreCalls
    /\ \E rs \in Batches("transaction_id") :
          /\ results' = addComplianceResults(results, rs)
          /\ calls' = Append(calls, [fn |-> "addComplianceResults", arg |-> rs])
    /\ UNCHANGED <<schema, clauses, transactions, reportTransactions, reports,
                   auditReports, hookVars, serviceVars>>

NextPipelineStore ==
    \/ AddRegulations
    \/ AddParsedClauses
    \/ AddTransactions
    \/ AddComplianceResults
    \/ AddAuditReport

SpecPipelineStore == InitStore /\ [][NextPipelineStore]_vars

(***************************************************************************)
(* The orchestration hooks usePipelineRunner (runFullPipeline, reset) and  *)
(* useMasterAgent (runMasterAgent, reset).  An invocation of the async run *)
(* function is suspended at its awaits; the code between two awaits runs   *)
(* without interruption, and progress.step is the value the last           *)
(* updateProgress of that stretch set.  Nothing keeps a second invocation  *)
(* from starting while one is suspended.                                   *)
(*   hook        which hook is mounted                                     *)
(*   progress    the hook's progress state (its step)                      *)
(*   isRunning, finalReport   the hook's other state                       *)
(*   runs        per invocation: the await it is suspended at (pc), the    *)
(*               agent calls left in the current loop (todo), whether a    *)
(*               clause was parsed, and how it ended (result)              *)
(*   event       what the last step delivered, and the stage of the        *)
(*               invocation it was delivered to                            *)
(* A run parses, and checks, between 1 and MaxItems items.                 *)
(***************************************************************************)
Hooks == {"usePipelineRunner", "useMasterAgent"}

Invocations == 1..MaxInvocations

NotInvoked == [pc |-> "notInvoked", todo |-> 0, parsed |-> FALSE, result |-> "none"]

(* The report literal of a run; it has an id (a random UUID, here the      *)
(* invocation) and no report_id.                                           *)
runReport(r) == [id |-> r, report_id |-> undefined]

(* How an awaited callAgent ends: it returns the agent's result, or throws  *)
(* because the response was not OK; callAgent of useMasterAgent retries a  *)
(* 429 response and throws when its last attempt is answered 429 too,     *)
(* callAgent of usePipelineRunner sends one request.                       *)
AgentOutcomes(hk) ==
    {"returned", "failed"} \cup (IF hk = "useMasterAgent" THEN {"rate_limited"} ELSE {})

(* Variant: no failed agent call ends the run. *)
onAgentFailureNeverThrow(hk, stage) == "continue"

(* Variant: every failed agent call ends the run. *)
onAgentFailureAlwaysThrow(hk, stage) == "throw"

(* The catch block around an agent call: useMasterAgent rethrows a failure *)
(* of the legal parser; every other catch block logs a warning (and, for   *)
(* a compliance check, pushes a 'warning' result) and the run goes on.     *)
onAgentFailure(hk, stage) ==
    IF hk = "useMasterAgent" /\ stage = "parsing_clauses" THEN "throw" ELSE "continue"

Suspend(r, step, pc, todo, parsed) ==
    /\ progress' = [step |-> step]
    /\ runs' = [runs EXCEPT ![r] = [pc |-> pc, todo |-> todo, parsed |-> parsed,
                                    result |-> "none"]]

(* catch (error) { updateProgress('error', message); ... } finally         *)
(* { setIsRunning(false) }: runFullPipeline rethrows, runMasterAgent       *)
(* returns null.                                                           *)
Fail(r) ==
    /\ progress' = [step |-> "error"]
    /\ isRunning' = FALSE
    /\ runs' = [runs EXCEPT ![r] = [pc |-> "done", todo |-> 0, parsed |-> @.parsed,
                 result |-> IF hook = "useMasterAgent" THEN "null" ELSE "threw"]]
    /\ UNCHANGED <<finalReport, auditReports>>

(* Step 4 begins: updateProgress('mapping_compliance', ...), then the      *)
(* first compliance check is awaited; with no clause there is no check and *)
(* the code goes on to updateProgress('generating_report', ...) and the    *)
(* auditor call.                                                           *)
EnterMapping(r, checks) ==
    IF checks > 0
    THEN Suspend(r, "mapping_compliance", "awaitMapping", checks, TRUE)
    ELSE Suspend(r, "generating_report", "awaitAuditor", 0, FALSE)

InitRunner ==
    /\ NoService
    /\ schema = "none"
    /\ clauses = <<>>
    /\ transactions = <<>>
    /\ calls = <<>>
    /\ results = <<>>
    /\ reportTransactions = <<>>
    /\ reports = NotCalled
    /\ auditReports = <<>>
    /\ hook \in Hooks
    /\ progress = [step |-> "idle"]
    /\ isRunning = FALSE
    /\ finalReport = null
    /\ runs = [r \in Invocations |-> NotInvoked]
    /\ event = [kind |-> "none"]

(* runFullPipeline(inputRegulations, inputTransactions) up to its first    *)
(* await; given is the number of input regulations.                        *)
RunFullPipeline(r) ==
    /\ hook = "usePipelineRunner"
    /\ runs[r].pc = "notInvoked"
    /\ isRunning' = TRUE
    /\ \E given \in 0..MaxItems :
          IF given = 0
          THEN Suspend(r, "fetching_regulations", "awaitRegulations", 0, FALSE)
          ELSE Suspend(r, "parsing_clauses", "awaitParser", given, FALSE)
    /\ event' = [kind |-> "invoked", run |-> r, at |-> "idle"]
    /\ UNCHANGED <<dataVars, serviceVars, auditReports, hook, finalReport>>

(* runMasterAgent(inputTransactions) up to its first await; an empty input *)
(* returns null at once.                                                   *)
RunMasterAgent(r) ==
    /\ hook = "useMasterAgent"
    /\ runs[r].pc = "notInvoked"
    /\ \E empty \in BOOLEAN :
          IF empty
          THEN /\ runs' = [runs EXCEPT ![r] = [pc |-> "done", todo |-> 0, parsed |-> FALSE,
                                               result |-> "null"]]
               /\ UNCHANGED <<progress, isRunning, finalReport>>
          ELSE /\ isRunning' = TRUE
               /\ finalReport' = null
               /\ Suspend(r, "fetching_regulations", "awaitRegulations", 0, FALSE)
    /\ event' = [kind |-> "invoked", run |-> r, at |-> "idle"]
    /\ UNCHANGED <<dataVars, serviceVars, auditReports, hook>>

(* The query on indexed_regulations returns: rows, no row, or an error.    *)
(* usePipelineRunner throws on an error, and falls back on the store's     *)
(* regulations when there is no row; useMasterAgent logs an error and      *)
(* throws when it has no regulation.                                       *)
RegulationsQueryReturns(r) ==
    /\ runs[r].pc = "awaitRegulations"
    /\ \E outcome \in {"rows", "empty", "error"}, n \in 1..MaxItems, stored \in BOOLEAN :
          /\ IF hook = "usePipelineRunner"
             THEN IF outcome = "rows" \/ (outcome = "empty" /\ stored)
                  THEN /\ Suspend(r, "parsing_clauses", "awaitParser", n, FALSE)
                       /\ UNCHANGED <<isRunning, finalReport, auditReports>>
                  ELSE Fail(r)
             ELSE IF outcome = "rows"
                  THEN /\ Suspend(r, "parsing_clauses", "awaitCache", n, FALSE)
                       /\ UNCHANGED <<isRunning, finalReport, auditReports>>
                  ELSE Fail(r)
          /\ event' = [kind |-> IF outcome = "error" THEN "query_failed" ELSE "query_returned",
                       run |-> r, at |-> "fetching_regulations"]
    /\ UNCHANGED <<dataVars, serviceVars, hook>>

(* useMasterAgent: the query on the parsed_clauses cache returns; an error *)
(* is logged and leaves every regulation uncached.  Cached regulations     *)
(* need no agent call.                                                     *)
CacheQueryReturns(r) ==
    /\ hook = "useMasterAgent"
    /\ runs[r].pc = "awaitCache"
    /\ \E outcome \in {"rows", "error"}, uncached \in 0..runs[r].todo, checks \in 1..MaxItems :
          /\ outcome = "error" => uncached = runs[r].todo
          /\ IF uncached = 0
             THEN EnterMapping(r, checks)
             ELSE Suspend(r, "parsing_clauses", "awaitParser", uncached, FALSE)
          /\ event' = [kind |-> IF outcome = "error" THEN "query_failed" ELSE "query_returned",
                       run |-> r, at |-> "parsing_clauses"]
    /\ UNCHANGED <<dataVars, serviceVars, auditReports, hook, isRunning, finalReport>>

(* callAgent('agent-legal-parser', ...) returns or throws. *)
ParserReturns(r) ==
    /\ runs[r].pc = "awaitParser"
    /\ \E outcome \in AgentOutcomes(hook), checks \in 1..MaxItems :
          /\ IF outcome # "returned" /\ onAgentFailure(hook, "parsing_clauses") = "throw"
             THEN Fail(r)
             ELSE /\ LET parsed == runs[r].parsed \/ outcome = "returned"
                     IN  IF runs[r].todo > 1
                         THEN Suspend(r, "parsing_clauses", "awaitParser",
                                      runs[r].todo - 1, parsed)
                         ELSE EnterMapping(r, IF parsed THEN checks ELSE 0)
                  /\ UNCHANGED <<isRunning, finalReport, auditReports>>
          /\ event' = [kind |-> IF outcome = "returned" THEN "agent_returned" ELSE "agent_failed",
                       run |-> r, at |-> "parsing_clauses", outcome |-> outcome]
    /\ UNCHANGED <<dataVars, serviceVars, hook>>

(* callAgent('agent-compliance-mapping', ...) returns or throws. *)
MappingReturns(r) ==
    /\ runs[r].pc = "awaitMapping"
    /\ \E outcome \in AgentOutcomes(hook) :
          /\ IF outcome # "returned" /\ onAgentFailure(hook, "mapping_compliance") = "throw"
             THEN Fail(r)
             ELSE /\ IF runs[r].todo > 1
                     THEN Suspend(r, "mapping_compliance", "awaitMapping",
                                  runs[r].todo - 1, TRUE)
                     ELSE Suspend(r, "generating_report", "awaitAuditor", 0, TRUE)
                  /\ UNCHANGED <<isRunning, finalReport, auditReports>>
          /\ event' = [kind |-> IF outcome = "returned" THEN "agent_returned" ELSE "agent_failed",
                       run |-> r, at |-> "mapping_compliance", outcome |-> outcome]
    /\ UNCHANGED <<dataVars, serviceVars, hook>>

(* callAgent('agent-auditor-assistant', ...) returns or throws; the report *)
(* is built and stored, the step is 'complete' and the run returns it.     *)
AuditorReturns(r) ==
    /\ runs[r].pc = "awaitAuditor"
    /\ \E outcome \in AgentOutcomes(hook) :
          /\ IF outcome # "returned" /\ onAgentFailure(hook, "generating_report") = "throw"
             THEN Fail(r)
             ELSE /\ auditReports' = addAuditReport(auditReports, runReport(r))
                  /\ finalReport' = IF hook = "useMasterAgent" THEN runReport(r)
                                    ELSE finalReport
                  /\ progress' = [step |-> "complete"]
                  /\ isRunning' = FALSE
                  /\ runs' = [runs EXCEPT ![r] = [pc |-> "done", todo |-> 0,
                                                  parsed |-> @.parsed, result |-> "report"]]
          /\ event' = [kind |-> IF outcome = "returned" THEN "agent_returned" ELSE "agent_failed",
                       run |-> r, at |-> "generating_report", outcome |-> outcome]
    /\ UNCHANGED <<dataVars, serviceVars, hook>>

(* reset(): the progress state is the initial one again; useMasterAgent    *)
(* also clears finalReport.                                                *)
Reset ==
    /\ hook \in Hooks
    /\ progress' = [step |-> "idle"]
    /\ finalReport' = null
    /\ event' = [kind |-> "reset", run |-> 0, at |-> progress.step]
    /\ UNCHANGED <<dataVars, serviceVars, auditReports, hook, isRunning, runs>>

NextRunner ==
    \/ \E r \in Invocations : RunFullPipeline(r)
    \/ \E r \in Invocations : RunMasterAgent(r)
    \/ \E r \in Invocations : RegulationsQueryReturns(r)
    \/ \E r \in Invocations : CacheQueryReturns(r)
    \/ \E r \in Invocations : ParserReturns(r)
    \/ \E r \in Invocations : MappingReturns(r)
    \/ \E r \in Invocations : AuditorReturns(r)
    \/ Reset

SpecRunner == InitRunner /\ [][NextRunner]_vars

(***************************************************************************)
(* callAgent of useMasterAgent, with pause() and resume().  A call is      *)
(* suspended at its awaits: the promise of checkPause, the throttling      *)
(* sleep, fetch, the backoff sleep.  Time is the value of Date.now(), in   *)
(* milliseconds since the hook was mounted plus minIntervalMs (the real    *)
(* Date.now() exceeds the initial lastCallAtRef of 0 by far more); it      *)
(* advances when an awaited timer or response is delivered: a sleep ends   *)
(* no earlier than its timeout, a response arrives one latency after its   *)
(* request.                                                                *)
(*   clock         Date.now()                                              *)
(*   lastCallAt    lastCallAtRef.current                                   *)
(*   isPaused      isPausedRef.current                                     *)
(*   pauseResolve  the call whose resolver pauseResolveRef.current holds,  *)
(*                 0 for null                                              *)
(*   agentCalls    per call: the await it is suspended at (pc), the loop   *)
(*                 variable attempt, when the awaited timer or response is *)
(*                 due (readyAt), the number of requests it has sent, how  *)
(*                 it ended; the locals of a call that ended are gone      *)
(*   sent          the last HTTP exchange: a request (its call and         *)
(*                 attempt, the time since the request before it, whether  *)
(*                 the hook was paused, the status that led to it) or a    *)
(*                 response (its status), and when the last request left   *)
(***************************************************************************)
minIntervalMs == 450

maxRetries == 6

(* Milliseconds from a request to its response. *)
Latencies == {100, 600}

(* Values of Math.floor(Math.random() * 500): the jitter lengthens a wait  *)
(* of 1500 ms or more by less than 500 ms; the least value stands for all. *)
Randoms == {0}

(* The retry-after header of a 429 response: absent, or a number of        *)
(* seconds.                                                                *)
RetryAfterHeaders == {"none", "2"}

Number(str) == CASE str = "2" -> 2

(* Milliseconds the caller lets pass between two calls: none, or its      *)
(* sleep(500).                                                             *)
CallerSleeps == {0, 500}

AgentCalls == 1..MaxAgentCalls

NoCall == [pc |-> "notCalled", attempt |-> 0, readyAt |-> 0, requests |-> 0,
           result |-> "none"]

Ended(result) == [pc |-> "done", attempt |-> 0, readyAt |-> 0, requests |-> 0,
                  result |-> result]

mathMax(a, b) == IF a > b THEN a ELSE b

retryAfterMs(retryAfterHeader) ==
    IF retryAfterHeader = "none" THEN 0 ELSE Number(retryAfterHeader) * 1000

backoffMs(attempt, random) == mathMin(60000, 1500 * 2^attempt + random)

waitMs(retryAfterHeader, attempt, random) ==
    mathMax(retryAfterMs(retryAfterHeader), backoffMs(attempt, random))

(* Variant: a 429 response is retried whatever the attempt. *)
shouldRetryAlways(status, attempt) == status = 429

(* if (response.status === 429 && attempt < maxRetries) *)
shouldRetry(status, attempt) == status = 429 /\ attempt < maxRetries

(* const sinceLast = now - lastCallAtRef.current;                          *)
(* if (sinceLast < minIntervalMs)                                          *)
mustThrottle(now, last) == now - last < minIntervalMs

(* fetch(url, ...) at time now, by call c in its given attempt, after a    *)
(* response of the given status (0: the first request of the call).        *)
Fetch(c, attempt, now, after) ==
    /\ agentCalls' = [agentCalls EXCEPT ![c] =
                         [pc |-> "fetching", attempt |-> attempt, readyAt |-> now,
                          requests |-> @.requests + 1, result |-> "none"]]
    /\ sent' = [kind |-> "request", call |-> c, attempt |-> attempt, status |-> after,
                requestAt |-> now,
                sincePrevious |-> IF sent.kind = "none" THEN minIntervalMs
                                  ELSE now - sent.requestAt,
                paused |-> isPaused']

(* callAgent after its checkPause, at time now: the throttling, and with   *)
(* no sleep needed lastCallAtRef.current = Date.now() and the first fetch. *)
Throttle(c, now) ==
    IF mustThrottle(now, lastCallAt)
    THEN /\ agentCalls' = [agentCalls EXCEPT ![c] =
                              [@ EXCEPT !.pc = "throttled",
                                        !.readyAt = now + (minIntervalMs - (now - lastCallAt))]]
         /\ UNCHANGED <<lastCallAt, sent>>
    ELSE /\ lastCallAt' = now
         /\ Fetch(c, 0, now, 0)

InitCallAgent ==
    /\ schema = "none"
    /\ clauses = <<>>
    /\ transactions = <<>>
    /\ calls = <<>>
    /\ results = <<>>
    /\ reportTransactions = <<>>
    /\ reports = NotCalled
    /\ auditReports = <<>>
    /\ NoHook
    /\ clock = minIntervalMs
    /\ lastCallAt = 0
    /\ isPaused = FALSE
    /\ pauseResolve = 0
    /\ agentCalls = [c \in AgentCalls |-> NoCall]
    /\ sent = [kind |-> "none"]
    /\ mapping = [pc |-> "notStarted"]
    /\ isLoading = FALSE
    /\ streamRuns = <<>>
    /\ regulations = <<>>
    /\ aiResponse = NotCalled
    /\ response = NotCalled

(* pause() *)
Pause ==
    /\ agentCalls # <<>>
    /\ isPaused' = TRUE
    /\ UNCHANGED <<clock, lastCallAt, pauseResolve, agentCalls, sent>>
    /\ UNCHANGED <<dataVars, auditReports, hookVars, mapping, isLoading, streamRuns, regulations,
                   aiResponse, response>>

(* resume(): the resolver in pauseResolveRef is called and cleared, and    *)
(* the call it belongs to runs on from its checkPause to its next await.   *)
Resume ==
    /\ agentCalls # <<>>
    /\ isPaused' = FALSE
    /\ pauseResolve' = 0
    /\ IF pauseResolve # 0
       THEN Throttle(pauseResolve, clock)
       ELSE UNCHANGED <<lastCallAt, agentCalls, sent>>
    /\ UNCHANGED clock
    /\ UNCHANGED <<dataVars, auditReports, hookVars, mapping, isLoading, streamRuns, regulations,
                   aiResponse, response>>

(* callAgent(functionName, body) up to its first await.  runMasterAgent    *)
(* awaits each call before it makes the next, at once (the parsing loop)   *)
(* or after its own sleep(500) (the mapping loop).  checkPause: when       *)
(* paused, the call waits on a promise whose resolver replaces whatever    *)
(* pauseResolveRef held.                                                   *)
CallAgent(c) ==
    /\ c \in DOMAIN agentCalls
    /\ agentCalls[c].pc = "notCalled"
    /\ c > 1 => agentCalls[c - 1].pc = "done"
    /\ \E wait \in CallerSleeps : clock' = clock + wait
    /\ UNCHANGED isPaused
    /\ IF isPaused
       THEN /\ pauseResolve' = c
            /\ agentCalls' = [agentCalls EXCEPT ![c] = [@ EXCEPT !.pc = "paused"]]
            /\ UNCHANGED <<lastCallAt, sent>>
       ELSE /\ Throttle(c, clock')
            /\ UNCHANGED pauseResolve
    /\ UNCHANGED <<dataVars, auditReports, hookVars, mapping, isLoading, streamRuns, regulations,
                   aiResponse, response>>

(* await sleep(minIntervalMs - sinceLast) ends; lastCallAtRef.current =    *)
(* Date.now(), and the first fetch.                                        *)
ThrottleSleepReturns(c) ==
    /\ c \in DOMAIN agentCalls
    /\ agentCalls[c].pc = "throttled"
    /\ clock' = mathMax(clock, agentCalls[c].readyAt)
    /\ lastCallAt' = clock'
    /\ UNCHANGED <<isPaused, pauseResolve>>
    /\ Fetch(c, 0, clock', 0)
    /\ UNCHANGED <<dataVars, auditReports, hookVars, mapping, isLoading, streamRuns, regulations,
                   aiResponse, response>>

(* await fetch(...) delivers a response: OK (the body is read and          *)
(* returned), 429 (retried after a sleep while attempts are left), or      *)
(* another status (the call throws).                                       *)
FetchReturns(c) ==
    /\ c \in DOMAIN agentCalls
    /\ agentCalls[c].pc = "fetching"
    /\ \E latency \in Latencies, status \in {200, 429, 500},
          retryAfterHeader \in RetryAfterHeaders, random \in Randoms :
          /\ status # 429 => retryAfterHeader = "none" /\ random = 0
          /\ clock' = mathMax(clock, agentCalls[c].readyAt + latency)
          /\ LET attempt == agentCalls[c].attempt
             IN  /\ agentCalls' = [agentCalls EXCEPT ![c] =
                       IF status = 200
                       THEN Ended("returned")
                       ELSE IF shouldRetry(status, attempt)
                       THEN [@ EXCEPT !.pc = "backoff",
                                      !.readyAt = clock' + waitMs(retryAfterHeader, attempt,
                                                                  random)]
                       ELSE Ended("threw")]
                 /\ sent' = [kind |-> "response", call |-> c, attempt |-> attempt,
                             status |-> status, requestAt |-> sent.requestAt]
    /\ UNCHANGED <<lastCallAt, isPaused, pauseResolve>>
    /\ UNCHANGED <<dataVars, auditReports, hookVars, mapping, isLoading, streamRuns, regulations,
                   aiResponse, response>>

(* await sleep(waitMs) ends; continue: attempt++, and the next fetch while *)
(* attempt <= maxRetries; after the loop the call throws.                  *)
BackoffSleepReturns(c) ==
    /\ c \in DOMAIN agentCalls
    /\ agentCalls[c].pc = "backoff"
    /\ clock' = mathMax(clock, agentCalls[c].readyAt)
    /\ UNCHANGED <<lastCallAt, isPaused, pauseResolve>>
    /\ IF agentCalls[c].attempt + 1 <= maxRetries
       THEN Fetch(c, agentCalls[c].attempt + 1, clock', 429)
       ELSE /\ agentCalls' = [agentCalls EXCEPT ![c] = Ended("threw")]
            /\ UNCHANGED sent
    /\ UNCHANGED <<dataVars, auditReports, hookVars, mapping, isLoading, streamRuns, regulations,
                   aiResponse, response>>

NextCallAgent ==
    \/ Pause
    \/ Resume
    \/ \E c \in AgentCalls : CallAgent(c)
    \/ \E c \in AgentCalls : ThrottleSleepReturns(c)
    \/ \E c \in AgentCalls : FetchReturns(c)
    \/ \E c \in AgentCalls : BackoffSleepReturns(c)

SpecCallAgent == InitCallAgent /\ [][NextCallAgent]_vars

(***************************************************************************)
(* Step 4 of runMasterAgent: the chunked compliance mapping.  The loops    *)
(* run from one await to the next: the compliance-mapping call of a        *)
(* (transaction, clause) pair, the sleep(500) after a call that returned,  *)
(* the sleep(CHUNK_DELAY_MS) between two chunks.                           *)
(*   transactions  inputTransactions                                       *)
(*   clauses       allClauses                                              *)
(*   mapping       the loop variables chunkIdx, i and the index k of the   *)
(*                 clause, the await the stage is suspended at (pc),       *)
(*                 totalChunks, and a log: the transactions in the order   *)
(*                 their loop body began, and the delays that elapsed      *)
(***************************************************************************)
CHUNK_SIZE == 3

CHUNK_DELAY_MS == 2000

(* Math.ceil(n / d) for n >= 0, d > 0 *)
mathCeil(n, d) == IF n % d = 0 THEN n \div d ELSE n \div d + 1

(* Array.prototype.slice(start, end) for 0 <= start *)
slice(arr, start, end) ==
    LET stop == mathMin(end, Len(arr))
    IN  IF stop <= start THEN <<>> ELSE [j \in 1..(stop - start) |-> arr[start + j]]

InputTransactions == { [j \in 1..n |-> [id |-> j]] : n \in 0..MaxInputTransactions }

AllClauses == { [j \in 1..m |-> [id |-> j]] : m \in 0..MaxAllClauses }

(* allClauses.slice(0, Math.min(3, allClauses.length)) *)
relevantClauses(allClauses) == slice(allClauses, 0, mathMin(3, Len(allClauses)))

(* Variant: a delay follows every chunk. *)
delayFollowsAlways(chunkIdx, totalChunks) == TRUE

(* if (chunkIdx < totalChunks - 1) *)
delayFollows(chunkIdx, totalChunks) == chunkIdx < totalChunks - 1

MappingAwaits == {"notStarted", "awaitCheck", "awaitSleep", "awaitChunkDelay", "finished"}

(* One step of the loops from a point that is not an await. *)
mappingStep(st, inputTransactions, allClauses) ==
    LET chunkStart == st.chunkIdx * CHUNK_SIZE
        chunkEnd == mathMin(chunkStart + CHUNK_SIZE, Len(inputTransactions))
        chunkTransactions == slice(inputTransactions, chunkStart, chunkEnd)
    IN  CASE st.pc = "chunkHead" ->
                IF st.chunkIdx < st.totalChunks
                THEN [st EXCEPT !.pc = "txHead", !.i = 0]
                ELSE [st EXCEPT !.pc = "finished"]
          [] st.pc = "txHead" ->
                IF st.i < Len(chunkTransactions)
                THEN [st EXCEPT !.pc = "clauseHead", !.k = 0,
                                !.log = Append(@, [kind |-> "tx",
                                                   id |-> chunkTransactions[st.i + 1].id,
                                                   chunk |-> st.chunkIdx])]
                ELSE [st EXCEPT !.pc = "chunkEnd"]
          [] st.pc = "clauseHead" ->
                IF st.k < Len(relevantClauses(allClauses))
                THEN [st EXCEPT !.pc = "awaitCheck"]
                ELSE [st EXCEPT !.pc = "txHead", !.i = @ + 1]
          [] st.pc = "chunkEnd" ->
                IF delayFollows(st.chunkIdx, st.totalChunks)
                THEN [st EXCEPT !.pc = "awaitChunkDelay"]
                ELSE [st EXCEPT !.pc = "chunkHead", !.chunkIdx = @ + 1]

RECURSIVE mappingRun(_, _, _)
(* The loops run on to their next await. *)
mappingRun(st, inputTransactions, allClauses) ==
    IF st.pc \in MappingAwaits
    THEN st
    ELSE mappingRun(mappingStep(st, inputTransactions, allClauses),
                    inputTransactions, allClauses)

InitMapping ==
    /\ schema = "MasterAgent"
    /\ clauses \in AllClauses
    /\ transactions \in InputTransactions
    /\ calls = <<>>
    /\ results = <<>>
    /\ reportTransactions = <<>>
    /\ reports = NotCalled
    /\ auditReports = <<>>
    /\ NoHook
    /\ clock = 0
    /\ lastCallAt = 0
    /\ isPaused = FALSE
    /\ pauseResolve = 0
    /\ agentCalls = <<>>
    /\ sent = [kind |-> "none"]
    /\ mapping = [pc |-> "notStarted"]
    /\ isLoading = FALSE
    /\ streamRuns = <<>>
    /\ regulations = <<>>
    /\ aiResponse = NotCalled
    /\ response = NotCalled

MappingUnchanged ==
    UNCHANGED <<dataVars, auditReports, hookVars, agentVars, isLoading, streamRuns, regulations,
                   aiResponse, response>>

(* const totalChunks = Math.ceil(inputTransactions.length / CHUNK_SIZE),   *)
(* and the loops up to their first await.                                  *)
StartMapping ==
    /\ schema = "MasterAgent"
    /\ mapping.pc = "notStarted"
    /\ mapping' = mappingRun([pc |-> "chunkHead", chunkIdx |-> 0, i |-> 0, k |-> 0,
                              totalChunks |-> mathCeil(Len(transactions), CHUNK_SIZE),
                              log |-> <<>>],
                             transactions, clauses)
    /\ MappingUnchanged

(* await callAgent('agent-compliance-mapping', ...) returns, and the       *)
(* sleep(500) is awaited, or throws, and the catch block pushes a          *)
(* 'warning' result: the next clause.                                      *)
CheckReturns ==
    /\ mapping.pc = "awaitCheck"
    /\ \E outcome \in {"returned", "failed"} :
          mapping' = IF outcome = "returned"
                     THEN [mapping EXCEPT !.pc = "awaitSleep"]
                     ELSE mappingRun([mapping EXCEPT !.pc = "clauseHead", !.k = @ + 1],
                                     transactions, clauses)
    /\ MappingUnchanged

(* await sleep(500) ends: the next clause. *)
CheckSleepReturns ==
    /\ mapping.pc = "awaitSleep"
    /\ mapping' = mappingRun([mapping EXCEPT !.pc = "clauseHead", !.k = @ + 1],
                             transactions, clauses)
    /\ MappingUnchanged

(* await sleep(CHUNK_DELAY_MS) ends: the next chunk. *)
ChunkDelayReturns ==
    /\ mapping.pc = "awaitChunkDelay"
    /\ mapping' = mappingRun([mapping EXCEPT
                                 !.pc = "chunkHead", !.chunkIdx = @ + 1,
                                 !.log = Append(@, [kind |-> "delay",
                                                    chunk |-> mapping.chunkIdx,
                                                    ms |-> CHUNK_DELAY_MS])],
                             transactions, clauses)
    /\ MappingUnchanged

NextMapping ==
    \/ StartMapping
    \/ CheckReturns
    \/ CheckSleepReturns
    \/ ChunkDelayReturns

SpecMapping == InitMapping /\ [][NextMapping]_vars

(***************************************************************************)
(* useStreamingAgent: runAgent.  An invocation is suspended at fetch, at   *)
(* reader.read() while the backend streams, and at the 20 ms timers of the *)
(* simulated stream of a mock response.  Nothing keeps a second invocation *)
(* from starting while one is suspended.                                   *)
(*   isLoading    the hook's isLoading state                               *)
(*   streamRuns   per invocation: the await it is suspended at (pc),       *)
(*                whether MOCK_RESPONSES has an entry for its function     *)
(*                name, the chunks read or left, how it ended              *)
(***************************************************************************)
InitStreaming ==
    /\ schema = "none"
    /\ clauses = <<>>
    /\ transactions = <<>>
    /\ calls = <<>>
    /\ results = <<>>
    /\ reportTransactions = <<>>
    /\ reports = NotCalled
    /\ auditReports = <<>>
    /\ NoHook
    /\ clock = 0
    /\ lastCallAt = 0
    /\ isPaused = FALSE
    /\ pauseResolve = 0
    /\ agentCalls = <<>>
    /\ sent = [kind |-> "none"]
    /\ mapping = [pc |-> "notStarted"]
    /\ isLoading = FALSE
    /\ streamRuns = [r \in 1..MaxStreamRuns |->
                        [pc |-> "notInvoked", hasMock |-> FALSE, chunks |-> 0,
                         result |-> "none"]]
    /\ regulations = <<>>
    /\ aiResponse = NotCalled
    /\ response = NotCalled

(* catch (err): with a mock response its chunks are streamed, one per      *)
(* timer; without one setError, toast, setIsLoading(false), throw err.     *)
Catch(r) ==
    IF streamRuns[r].hasMock
    THEN /\ \E chunks \in 1..MaxChunks :
               streamRuns' = [streamRuns EXCEPT ![r].pc = "awaitTimer", ![r].chunks = chunks]
         /\ UNCHANGED isLoading
    ELSE /\ streamRuns' = [streamRuns EXCEPT ![r].pc = "done", ![r].result = "threw"]
         /\ isLoading' = FALSE

(* runAgent(functionName, body) up to its await of fetch. *)
RunAgent(r) ==
    /\ r \in DOMAIN streamRuns
    /\ streamRuns[r].pc = "notInvoked"
    /\ isLoading' = TRUE
    /\ \E hasMock \in BOOLEAN :
          streamRuns' = [streamRuns EXCEPT ![r].pc = "awaitFetch", ![r].hasMock = hasMock]
    /\ UNCHANGED <<dataVars, auditReports, hookVars, agentVars, mapping, regulations,
                   aiResponse, response>>

(* await fetch(...) delivers an OK response with a body, whose reader is   *)
(* read, or anything else (a rejection, a status that is not OK, no body), *)
(* which is thrown.                                                        *)
StreamFetchReturns(r) ==
    /\ r \in DOMAIN streamRuns
    /\ streamRuns[r].pc = "awaitFetch"
    /\ \E outcome \in {"ok", "failed"} :
          IF outcome = "ok"
          THEN /\ streamRuns' = [streamRuns EXCEPT ![r].pc = "awaitRead"]
               /\ UNCHANGED isLoading
          ELSE Catch(r)
    /\ UNCHANGED <<dataVars, auditReports, hookVars, agentVars, mapping, regulations,
                   aiResponse, response>>

(* await reader.read() delivers a chunk, or done (options.onComplete, and  *)
(* return fullResponse), or rejects.                                       *)
ReaderReturns(r) ==
    /\ r \in DOMAIN streamRuns
    /\ streamRuns[r].pc = "awaitRead"
    /\ \E outcome \in {"chunk", "done", "rejected"} :
          CASE outcome = "chunk" ->
                  /\ streamRuns[r].chunks < MaxChunks
                  /\ streamRuns' = [streamRuns EXCEPT ![r].chunks = @ + 1]
                  /\ UNCHANGED isLoading
            [] outcome = "done" ->
                  /\ streamRuns' = [streamRuns EXCEPT ![r].pc = "done",
                                                      ![r].result = "streamed"]
                  /\ UNCHANGED isLoading
            [] outcome = "rejected" -> Catch(r)
    /\ UNCHANGED <<dataVars, auditReports, hookVars, agentVars, mapping, regulations,
                   aiResponse, response>>

(* await new Promise(r => setTimeout(r, 20)) ends: the next chunk of the   *)
(* mock response; after the last one options.onComplete,                   *)
(* setIsLoading(false), return mockResponse.                               *)
MockTimerReturns(r) ==
    /\ r \in DOMAIN streamRuns
    /\ streamRuns[r].pc = "awaitTimer"
    /\ IF streamRuns[r].chunks > 1
       THEN /\ streamRuns' = [streamRuns EXCEPT ![r].chunks = @ - 1]
            /\ UNCHANGED isLoading
       ELSE /\ streamRuns' = [streamRuns EXCEPT ![r].pc = "done", ![r].chunks = 0,
                                                ![r].result = "mock"]
            /\ isLoading' = FALSE
    /\ UNCHANGED <<dataVars, auditReports, hookVars, agentVars, mapping, regulations,
                   aiResponse, response>>

NextStreaming ==
    \/ \E r \in 1..MaxStreamRuns : RunAgent(r)
    \/ \E r \in 1..MaxStreamRuns : StreamFetchReturns(r)
    \/ \E r \in 1..MaxStreamRuns : ReaderReturns(r)
    \/ \E r \in 1..MaxStreamRuns : MockTimerReturns(r)

SpecStreaming == InitStreaming /\ [][NextStreaming]_vars

(***************************************************************************)
(* The batch-compliance-audit function: one request, one call of the AI    *)
(* gateway, one response.                                                  *)
(*   transactions, regulations   the request body                          *)
(*   aiResponse   what the AI gateway answers: a status that is not OK, or *)
(*                a content that JSON.parse rejects, or the value it       *)
(*                parses to                                                *)
(*   response     the function's response: its status and, for 200, the    *)
(*                clauses and results of its body                          *)
(***************************************************************************)
AiResponses ==
    LET clauseLists == { <<>>, <<[clauseId |-> "C1"]>>,
                         <<[clauseId |-> "C1"], [clauseId |-> "C2"]>> }
        resultLists == UNION { [1..n -> [transactionId : {"t1", "t2"},
                                         clauseId : {"C1", "C9"}]] : n \in 0..MaxBatch }
    IN  {[status |-> 429], [status |-> 500], [status |-> 200, parses |-> FALSE],
         [status |-> 200, parses |-> TRUE, parsed |-> [summary |-> "none"]]}
        \cup { [status |-> 200, parses |-> TRUE, parsed |-> [clauses |-> cs, results |-> rs]] :
               cs \in clauseLists, rs \in resultLists }

(* catch (parseError): the minimal response.  A clause per regulation,     *)
(* named after its source (upper case, every character but A-Z and 0-9    *)
(* replaced by '_', 10 characters at most) and its position padded to 3    *)
(* digits; a result per transaction, whose clauseId is                     *)
(* parsed?.clauses?.[0]?.clauseId || `CLAUSE_${i}` with parsed not yet     *)
(* assigned.                                                               *)
fallbackResponse(txns, regs) ==
    LET prefix(source) == CASE source = "GST Act" -> "GST_ACT"
                            [] source = "RBI" -> "RBI"
        padStart(n) == IF n < 10 THEN "00" \o ToString(n)
                       ELSE IF n < 100 THEN "0" \o ToString(n) ELSE ToString(n)
    IN  [clauses |-> [i \in DOMAIN regs |->
                         [clauseId |-> prefix(regs[i].source) \o "_" \o padStart(i)]],
         results |-> [i \in DOMAIN txns |->
                         [transactionId |-> txns[i].id,
                          clauseId |-> "CLAUSE_" \o ToString(i - 1)]]]

(* Ensure all transactions have at least one result: a result on the first *)
(* clause is pushed for every transaction whose id no result of the parsed *)
(* reply has, when there is a clause.                                      *)
ensureResults(parsed, txns) ==
    LET existingTxIds == { parsed.results[i].transactionId : i \in DOMAIN parsed.results }
        missing == SelectSeq(txns, LAMBDA tx : /\ tx.id \notin existingTxIds
                                               /\ Len(parsed.clauses) > 0)
    IN  [parsed EXCEPT !.results =
            @ \o [i \in DOMAIN missing |-> [transactionId |-> missing[i].id,
                                            clauseId |-> parsed.clauses[1].clauseId]]]

(* The handler: the status of a gateway answer that is not OK is passed on *)
(* (429, 402) or becomes 500; a TypeError on a parsed value without        *)
(* results is caught and becomes 500.                                      *)
serve(txns, regs, ai) ==
    IF ai.status # 200
    THEN [status |-> IF ai.status \in {429, 402} THEN ai.status ELSE 500]
    ELSE LET parsed == IF ai.parses THEN ai.parsed ELSE fallbackResponse(txns, regs)
         IN  IF "results" \notin DOMAIN parsed
             THEN [status |-> 500]
             ELSE [status |-> 200, body |-> ensureResults(parsed, txns)]

InitBatchAudit ==
    /\ schema = "BatchAudit"
    /\ clauses = <<>>
    /\ transactions \in UNION { [1..n -> [id : {"t1", "t2"}]] : n \in 0..MaxBatch }
    /\ calls = <<>>
    /\ results = <<>>
    /\ reportTransactions = <<>>
    /\ reports = NotCalled
    /\ auditReports = <<>>
    /\ NoHook
    /\ clock = 0
    /\ lastCallAt = 0
    /\ isPaused = FALSE
    /\ pauseResolve = 0
    /\ agentCalls = <<>>
    /\ sent = [kind |-> "none"]
    /\ mapping = [pc |-> "notStarted"]
    /\ isLoading = FALSE
    /\ streamRuns = <<>>
    /\ regulations \in UNION { [1..n -> [id : {"r1"}, source : {"GST Act", "RBI"}]] :
                               n \in 0..MaxBatch }
    /\ aiResponse \in AiResponses
    /\ response = NotCalled

ServeBatchAudit ==
    /\ schema = "BatchAudit"
    /\ response = NotCalled
    /\ response' = serve(transactions, regulations, aiResponse)
    /\ UNCHANGED <<dataVars, auditReports, hookVars, agentVars, mapping, isLoading,
                   streamRuns, regulations, aiResponse>>

SpecBatchAudit == InitBatchAudit /\ [][ServeBatchAudit]_vars

(***************************************************************************)
(* Vocabulary of the properties.  A point <<k, i>> is the i-th result of   *)
(* the k-th call; it was computed from the i-th transaction.               *)
(***************************************************************************)
Agent4Fns == {"runAgent4Simulation", "runAgent4SimulationAutomation"}

PointsOf(fns) ==
    UNION { { <<k, i>> : i \in DOMAIN calls[k].out } :
            k \in { j \in DOMAIN calls : calls[j].fn \in fns } }

Agent4Points == PointsOf(Agent4Fns)
CheckCompliancePoints == PointsOf({"checkCompliance"})

ResultAt(p) == calls[p[1]].out[p[2]]
TxnAt(p) == transactions[p[2]]

ClauseSet == { clauses[k] : k \in DOMAIN clauses }

(* The violations of a result that carry the clause's clause_id, in order. *)
ViolationsOfClause(r, c) == SelectSeq(r.violations, LAMBDA v : v.clause_id = c.clause_id)

OfType(vs, type) == SelectSeq(vs, LAMBDA v : v.type = type)

(* The clause applies: category is a member, amount is at least the        *)
(* threshold.                                                              *)
Applies(c, t) ==
    /\ t.category \in { c.transaction_types[k] : k \in DOMAIN c.transaction_types }
    /\ t.amount >= c.amount_threshold

(* tax_paid < 0.95 * (amount * tax_rate / 100), both sides times 2000. *)
TaxUnderpaid(c, t) == t.tax_paid * 2000 < 19 * (t.amount * c.tax_rate)

BidsOf(t) == IF "bids_count" \in DOMAIN t THEN t.bids_count ELSE 0

(* a and b are the same character up to letter case *)
LetterPairs == { {UpperCase[k], LowerCase[k]} : k \in DOMAIN UpperCase }

SameLetter(a, b) == a = b \/ {a, b} \in LetterPairs

(* the document name contains the tag as a substring, ignoring case *)
Matches(doc, tag) ==
    \E off \in 0..(Len(doc) - Len(tag)) :
        \A j \in 1..Len(tag) : SameLetter(doc[off + j], tag[j])

MissingTags(c, t) ==
    SelectSeq(c.required_documents,
              LAMBDA tag : ~(\E d \in DOMAIN t.documents_attached :
                                Matches(t.documents_attached[d], tag)))

(***************************************************************************)
(* C1.  In every result of runAgent4Simulation (both copies) the status is *)
(* VIOLATION exactly when the violations list is non-empty and COMPLIANT   *)
(* otherwise; in every result of checkCompliance is_compliant is true      *)
(* exactly when the violations list is empty.                              *)
(***************************************************************************)
C1_StatusIffViolations ==
    /\ \A p \in Agent4Points :
          /\ ResultAt(p).compliance_status \in {"VIOLATION", "COMPLIANT"}
          /\ (ResultAt(p).compliance_status = "VIOLATION")
                <=> (Len(ResultAt(p).violations) > 0)
    /\ \A p \in CheckCompliancePoints :
          ResultAt(p).is_compliant <=> (Len(ResultAt(p).violations) = 0)

(* One call returned a COMPLIANT and a VIOLATION result, the latter with   *)
(* exactly one violation.                                                  *)
C1_Witness ==
    \E p, q \in Agent4Points :
        /\ p[1] = q[1]
        /\ ResultAt(p).compliance_status = "COMPLIANT"
        /\ ResultAt(q).compliance_status = "VIOLATION"
        /\ Len(ResultAt(q).violations) = 1

(***************************************************************************)
(* C2.  overall_risk_score is min(0.3 * n, 0.99) rounded to two decimals,  *)
(* n the number of violations: 0, 0.3, 0.6, 0.9 for n = 0..3, 0.99 from    *)
(* n = 4 on, and always within [0, 0.99].  (Scores are in hundredths.)     *)
(***************************************************************************)
C2_RiskScore ==
    \A p \in Agent4Points :
        LET n == Len(ResultAt(p).violations)
            score == ResultAt(p).overall_risk_score
        IN  /\ score = (IF 30 * n < 99 THEN 30 * n ELSE 99)
            /\ score = (CASE n = 0 -> 0 [] n = 1 -> 30 [] n = 2 -> 60
                          [] n = 3 -> 90 [] OTHER -> 99)
            /\ score \in 0..99

(* One call returned a result with three violations and one with more      *)
(* than three.                                                             *)
C2_Witness ==
    \E p, q \in Agent4Points :
        /\ p[1] = q[1]
        /\ Len(ResultAt(p).violations) = 3
        /\ Len(ResultAt(q).violations) > 3

C4_TaxMismatch ==
    \A p \in Agent4Points : \A c \in ClauseSet :
        LET t == TxnAt(p)
            tv == OfType(ViolationsOfClause(ResultAt(p), c), "TAX_MISMATCH")
        IN  (Applies(c, t) /\ "tax_rate" \in DOMAIN c) =>
              /\ Len(tv) = (IF TaxUnderpaid(c, t) THEN 1 ELSE 0)
              /\ \A k \in DOMAIN tv :
                    /\ tv[k].expected_tax * 100 = t.amount * c.tax_rate
                    /\ tv[k].claimed_tax = t.tax_paid
              /\ t.tax_paid * 100 >= t.amount * c.tax_rate => tv = <<>>
              /\ (c.tax_rate = 18 /\ t.amount = 2500000 /\ t.tax_paid = 430000)
                    => tv = <<>>
              /\ (c.tax_rate = 18 /\ t.amount = 2500000 /\ t.tax_paid = 400000)
                    => (Len(tv) = 1 /\ tv[1].expected_tax = 450000)

(* One call checked, against a clause with rate 18, a transaction paying   *)
(* 400,000 on 2,500,000 (flagged) and one paying more than the expected    *)
(* tax (not flagged).                                                      *)
C4_Witness ==
    \E c \in ClauseSet : \E p, q \in Agent4Points :
        /\ p[1] = q[1]
        /\ "tax_rate" \in DOMAIN c /\ c.tax_rate = 18
        /\ Applies(c, TxnAt(p)) /\ Applies(c, TxnAt(q))
        /\ TxnAt(p).amount = 2500000 /\ TxnAt(p).tax_paid = 400000
        /\ Len(OfType(ViolationsOfClause(ResultAt(p), c), "TAX_MISMATCH")) = 1
        /\ TxnAt(q).tax_paid * 100 > TxnAt(q).amount * c.tax_rate
        /\ OfType(ViolationsOfClause(ResultAt(q), c), "TAX_MISMATCH") = <<>>

(***************************************************************************)
(* C5.  Bidding check.  For an applicable clause with min_bids defined the *)
(* result holds exactly one BIDDING_REQUIREMENT of that clause if          *)
(* actualBids < min_bids and none otherwise, actualBids being bids_count   *)
(* or 0 when bids_count is absent; the violation carries expected_bids =   *)
(* min_bids and actual_bids = actualBids, and the shortfall named in the   *)
(* corrective action, min_bids - actualBids, is at least 1.                *)
(***************************************************************************)
C5_BiddingRequirement ==
    \A p \in Agent4Points : \A c \in ClauseSet :
        LET t == TxnAt(p)
            bv == OfType(ViolationsOfClause(ResultAt(p), c), "BIDDING_REQUIREMENT")
        IN  (Applies(c, t) /\ "min_bids" \in DOMAIN c) =>
              /\ Len(bv) = (IF BidsOf(t) < c.min_bids THEN 1 ELSE 0)
              /\ \A k \in DOMAIN bv :
                    /\ bv[k].expected_bids = c.min_bids
                    /\ bv[k].actual_bids = BidsOf(t)
                    /\ bv[k].corrective_action[2] = c.min_bids - BidsOf(t)
                    /\ bv[k].corrective_action[2] >= 1

(* One call checked, against a clause with min_bids, a transaction without *)
(* bids_count (flagged with actual_bids 0) and one with exactly min_bids   *)
(* bids (not flagged).                                                     *)
C5_Witness ==
    \E c \in ClauseSet : \E p, q \in Agent4Points :
        /\ p[1] = q[1]
        /\ "min_bids" \in DOMAIN c /\ c.min_bids > 0
        /\ Applies(c, TxnAt(p)) /\ Applies(c, TxnAt(q))
        /\ "bids_count" \notin DOMAIN TxnAt(p)
        /\ \E k \in DOMAIN ResultAt(p).violations :
              /\ ResultAt(p).violations[k].type = "BIDDING_REQUIREMENT"
              /\ ResultAt(p).violations[k].clause_id = c.clause_id
              /\ ResultAt(p).violations[k].actual_bids = 0
        /\ "bids_count" \in DOMAIN TxnAt(q) /\ TxnAt(q).bids_count = c.min_bids
        /\ OfType(ViolationsOfClause(ResultAt(q), c), "BIDDING_REQUIREMENT") = <<>>

(***************************************************************************)
(* C6.  Missing-document check.  For an applicable clause the              *)
(* MISSING_DOCUMENT violations of that clause are exactly one per required *)
(* tag that matches no attached document, with required_doc that tag, in   *)
(* the order of required_documents; a tag matches a document whose name    *)
(* contains it as a substring ignoring letter case.  Required              *)
(* [project_order] with documents [Invoice.pdf, GRN.pdf] gives one         *)
(* violation, with [project_order_2024.pdf] none.                          *)
(***************************************************************************)
C6_MissingDocument ==
    \A p \in Agent4Points : \A c \in ClauseSet :
        LET t == TxnAt(p)
            dv == OfType(ViolationsOfClause(ResultAt(p), c), "MISSING_DOCUMENT")
        IN  Applies(c, t) =>
              /\ Len(dv) = Len(MissingTags(c, t))
              /\ \A k \in DOMAIN dv : dv[k].required_doc = MissingTags(c, t)[k]
              /\ (c.required_documents = <<tag_project_order>>
                    /\ t.documents_attached = <<doc_Invoice_pdf, doc_GRN_pdf>>)
                    => (Len(dv) = 1 /\ dv[1].required_doc = tag_project_order)
              /\ (c.required_documents = <<tag_project_order>>
                    /\ t.documents_attached = <<doc_project_order_2024_pdf>>)
                    => dv = <<>>

(* One result reports two missing tags of a clause and not a third tag     *)
(* between them, which an attached document matches only when letter case  *)
(* is ignored.                                                             *)
C6_Witness ==
    \E c \in ClauseSet : \E p \in Agent4Points :
        LET dv == OfType(ViolationsOfClause(ResultAt(p), c), "MISSING_DOCUMENT")
            docs == TxnAt(p).documents_attached
        IN  /\ Applies(c, TxnAt(p))
            /\ Len(c.required_documents) = 3
            /\ Len(dv) = 2
            /\ dv[1].required_doc = c.required_documents[1]
            /\ dv[2].required_doc = c.required_documents[3]
            /\ \A d \in DOMAIN docs : ~includes(docs[d], c.required_documents[2])

(***************************************************************************)
(* C7.  Order of the violations list: clause iteration order first, then   *)
(* within one clause tax, bidding, documents.  For any two violations v    *)
(* before w, v's clause precedes w's clause in the clause list, or they    *)
(* are of the same clause and v's kind does not come after w's.            *)
(***************************************************************************)
ClauseIndexOf(v) == CHOOSE k \in DOMAIN clauses : clauses[k].clause_id = v.clause_id

KindRank(v) ==
    CASE v.type = "TAX_MISMATCH" -> 1
      [] v.type = "BIDDING_REQUIREMENT" -> 2
      [] v.type = "MISSING_DOCUMENT" -> 3

C7_ViolationOrder ==
    \A p \in Agent4Points :
        LET vs == ResultAt(p).violations
        IN  \A a, b \in DOMAIN vs :
              a < b =>
                \/ ClauseIndexOf(vs[a]) < ClauseIndexOf(vs[b])
                \/ /\ ClauseIndexOf(vs[a]) = ClauseIndexOf(vs[b])
                   /\ KindRank(vs[a]) <= KindRank(vs[b])

(* One result holds violations of two clauses, the first of them with all  *)
(* three kinds.                                                            *)
C7_Witness ==
    \E p \in Agent4Points :
        LET vs == ResultAt(p).violations
        IN  /\ Len(clauses) = 2
            /\ { v.type : v \in { vs[k] : k \in { j \in DOMAIN vs :
                                    vs[j].clause_id = clauses[1].clause_id } } }
                 = {"TAX_MISMATCH", "BIDDING_REQUIREMENT", "MISSING_DOCUMENT"}
            /\ \E k \in DOMAIN vs : vs[k].clause_id = clauses[2].clause_id

(***************************************************************************)
(* C8.  runAgent4Simulation returns one result per input transaction, in   *)
(* input order: the output is as long as the transactions list and the     *)
(* i-th result's transaction_id is the i-th transaction's id, for every    *)
(* clause list; with the empty clause list every result is COMPLIANT with  *)
(* risk 0.                                                                 *)
(***************************************************************************)
C8_OneResultPerTransaction ==
    \A k \in DOMAIN calls :
        calls[k].fn \in Agent4Fns =>
          /\ Len(calls[k].out) = Len(transactions)
          /\ \A i \in DOMAIN calls[k].out :
                /\ i \in DOMAIN transactions
                /\ calls[k].out[i].transaction_id =
                      (IF calls[k].fn = "runAgent4Simulation"
                       THEN transactions[i].id
                       ELSE transactions[i].transaction_id)
                /\ clauses = <<>> =>
                      /\ calls[k].out[i].compliance_status = "COMPLIANT"
                      /\ calls[k].out[i].overall_risk_score = 0

(* A call of the first copy on two transactions returned a COMPLIANT       *)
(* result followed by a VIOLATION result.                                  *)
C8_Witness ==
    \E k \in DOMAIN calls :
        /\ calls[k].fn = "runAgent4Simulation"
        /\ Len(transactions) = 2
        /\ transactions[1].id # transactions[2].id
        /\ calls[k].out[1].transaction_id = transactions[1].id
        /\ Len(calls[k].out) = 2
        /\ calls[k].out[1].compliance_status = "COMPLIANT"
        /\ calls[k].out[2].compliance_status = "VIOLATION"

C10_UndefinedParameterSkipsCheck ==
    \A p \in Agent4Points : \A c \in ClauseSet :
        LET vs == ViolationsOfClause(ResultAt(p), c)
        IN  /\ "tax_rate" \notin DOMAIN c => OfType(vs, "TAX_MISMATCH") = <<>>
            /\ "min_bids" \notin DOMAIN c => OfType(vs, "BIDDING_REQUIREMENT") = <<>>
            /\ c.required_documents = <<>> => OfType(vs, "MISSING_DOCUMENT") = <<>>
            /\ ("tax_rate" \notin DOMAIN c /\ "min_bids" \notin DOMAIN c
                  /\ c.required_documents = <<>>) => vs = <<>>

(* A transaction without bids_count was evaluated against two applicable   *)
(* clauses: one that defines no check, which is silent, and one that       *)
(* defines other checks but no min_bids, which reports violations.         *)
C10_Witness ==
    \E p \in Agent4Points : \E c, d \in ClauseSet :
        /\ Applies(c, TxnAt(p)) /\ Applies(d, TxnAt(p))
        /\ "bids_count" \notin DOMAIN TxnAt(p)
        /\ "tax_rate" \notin DOMAIN c /\ "min_bids" \notin DOMAIN c
        /\ c.required_documents = <<>>
        /\ ViolationsOfClause(ResultAt(p), c) = <<>>
        /\ "min_bids" \notin DOMAIN d
        /\ ViolationsOfClause(ResultAt(p), d) # <<>>

(***************************************************************************)
(* C11.  End-to-end scenario.  Clause 1 = categories {construction},       *)
(* threshold 1,000,000, tax rate 18, required documents vendor_cert,       *)
(* invoice, project_order; clause 2 = categories {construction,            *)
(* procurement, services}, threshold 1,000,000, min bids 3, required       *)
(* document bid_summary.  The transaction of 2,500,000, category           *)
(* construction, tax paid 125,000, 2 bids, documents invoice.pdf and       *)
(* grn.pdf gets exactly five violations, in the order TAX_MISMATCH,        *)
(* MISSING_DOCUMENT(vendor_cert), MISSING_DOCUMENT(project_order),         *)
(* BIDDING_REQUIREMENT, MISSING_DOCUMENT(bid_summary), with status         *)
(* VIOLATION and risk score 0.99.                                          *)
(***************************************************************************)
ScenarioClauses ==
    /\ Len(clauses) = 2
    /\ clauses[1].transaction_types = <<"construction">>
    /\ clauses[1].amount_threshold = 1000000
    /\ DOMAIN clauses[1] \cap {"tax_rate", "min_bids"} = {"tax_rate"}
    /\ clauses[1].tax_rate = 18
    /\ clauses[1].required_documents = <<tag_vendor_cert, tag_invoice, tag_project_order>>
    /\ clauses[2].transaction_types = <<"construction", "procurement", "services">>
    /\ clauses[2].amount_threshold = 1000000
    /\ DOMAIN clauses[2] \cap {"tax_rate", "min_bids"} = {"min_bids"}
    /\ clauses[2].min_bids = 3
    /\ clauses[2].required_documents = <<tag_bid_summary>>

ScenarioTransaction(t) ==
    /\ t.amount = 2500000
    /\ t.category = "construction"
    /\ t.tax_paid = 125000
    /\ "bids_count" \in DOMAIN t /\ t.bids_count = 2
    /\ t.documents_attached = <<doc_invoice_pdf, doc_grn_pdf>>

(* A violation as the scenario names it: its kind and, for a missing       *)
(* document, the tag.                                                      *)
KindAndTag(v) ==
    IF v.type = "MISSING_DOCUMENT" THEN <<v.type, v.required_doc>> ELSE <<v.type>>

C11_EndToEndScenario ==
    \A p \in Agent4Points :
        (ScenarioClauses /\ ScenarioTransaction(TxnAt(p))) =>
          LET r == ResultAt(p)
          IN  /\ Len(r.violations) = 5
              /\ [k \in 1..5 |-> KindAndTag(r.violations[k])]
                    = << <<"TAX_MISMATCH">>,
                         <<"MISSING_DOCUMENT", tag_vendor_cert>>,
                         <<"MISSING_DOCUMENT", tag_project_order>>,
                         <<"BIDDING_REQUIREMENT">>,
                         <<"MISSING_DOCUMENT", tag_bid_summary>> >>
              /\ r.compliance_status = "VIOLATION"
              /\ r.overall_risk_score = 99

(* The scenario's clauses and transaction were evaluated. *)
C11_Witness ==
    \E p \in Agent4Points :
        /\ ScenarioClauses
        /\ ScenarioTransaction(TxnAt(p))
        /\ calls[p[1]].fn = "runAgent4Simulation"
        /\ ResultAt(p).violations # <<>>

(***************************************************************************)
(* Vocabulary of the report properties.                                    *)
(***************************************************************************)
ReportsReturned == reports.kind = "return"

ViolatingIndices == { i \in DOMAIN results : results[i].compliance_status = "VIOLATION" }

(* The index in results of the k-th violating result. *)
ViolatingIndex(k) ==
    CHOOSE i \in ViolatingIndices : Cardinality({ j \in ViolatingIndices : j <= i }) = k

(***************************************************************************)
(* C12.  Both copies of runAgent5Simulation return exactly one report per  *)
(* result whose compliance_status is VIOLATION, in the order of the        *)
(* results, and none for a COMPLIANT result; the k-th report has the       *)
(* transaction_id, the violations list and the risk score of the k-th      *)
(* violating result, and its report_id is RPT_ followed by that            *)
(* transaction id.                                                         *)
(***************************************************************************)
C12_OneReportPerViolation ==
    ReportsReturned =>
        /\ Len(reports.value) = Cardinality(ViolatingIndices)
        /\ \A k \in DOMAIN reports.value :
              LET res == results[ViolatingIndex(k)]
                  rep == reports.value[k]
              IN  /\ rep.transaction_id = res.transaction_id
                  /\ rep.violations = res.violations
                  /\ rep.risk_score = res.overall_risk_score
                  /\ rep.report_id = <<"RPT_", res.transaction_id>>

(* The second copy returned one report for two results, the first of them *)
(* COMPLIANT.                                                              *)
C12_Witness ==
    /\ ReportsReturned
    /\ schema = "AutomationClause"
    /\ Len(results) = 2
    /\ Len(reports.value) = 1
    /\ results[1].compliance_status = "COMPLIANT"

(***************************************************************************)
(* C13.  In every report the recommendations list has one entry per        *)
(* violation, in the same order, with violation_type the violation's type; *)
(* the priority is HIGH iff the violation's severity is high and MEDIUM    *)
(* otherwise, never LOW; the deadline is "Immediate" iff the priority is   *)
(* HIGH and "7-14 days" otherwise.                                         *)
(***************************************************************************)
C13_Recommendations ==
    ReportsReturned =>
        \A k \in DOMAIN reports.value :
            LET rep == reports.value[k]
            IN  /\ Len(rep.recommendations) = Len(rep.violations)
                /\ \A n \in DOMAIN rep.recommendations :
                      LET rec == rep.recommendations[n]
                          v == rep.violations[n]
                      IN  /\ rec.violation_type = v.type
                          /\ rec.priority \in {"HIGH", "MEDIUM"}
                          /\ rec.priority = "HIGH" <=> v.severity = "high"
                          /\ rec.deadline \in {"Immediate", "7-14 days"}
                          /\ rec.deadline = "Immediate" <=> rec.priority = "HIGH"

(* A report has violations of high severity and violations of low         *)
(* severity, the latter with priority MEDIUM.                              *)
C13_Witness ==
    /\ ReportsReturned
    /\ \E k \in DOMAIN reports.value :
          { reports.value[k].violations[n].severity :
                n \in DOMAIN reports.value[k].violations } = {"high", "low"}

(***************************************************************************)
(* C14.  When a VIOLATION result's transaction_id matches no transaction   *)
(* of the supplied list, an explicit check catches it: the call either     *)
(* ends with the error that check raises (not the runtime's TypeError for  *)
(* reading a property of undefined), or returns the reports of the other   *)
(* violating results; it never builds a report from the missing            *)
(* transaction.                                                            *)
(***************************************************************************)
TransactionKey(t) == IF schema = "ParsedClause" THEN t.id ELSE t.transaction_id

Supplied(id) == \E n \in DOMAIN reportTransactions : TransactionKey(reportTransactions[n]) = id

MissingTransaction == \E i \in ViolatingIndices : ~Supplied(results[i].transaction_id)

C14_MissingTransactionGuard ==
    (reports # NotCalled /\ MissingTransaction) =>
        \/ reports.kind = "throw" /\ reports.error # "TypeError"
        \/ /\ reports.kind = "return"
           /\ { reports.value[k].transaction_id : k \in DOMAIN reports.value }
                 = { results[i].transaction_id :
                       i \in { j \in ViolatingIndices : Supplied(results[j].transaction_id) } }

(***************************************************************************)
(* Vocabulary of the store properties.                                     *)
(***************************************************************************)
Added == [i \in DOMAIN calls |-> calls[i].arg]

(* a is b with some elements left out. *)
IsSubsequence(a, b) ==
    \E f \in [DOMAIN a -> DOMAIN b] :
        /\ \A i, j \in DOMAIN a : i < j => f[i] < f[j]
        /\ \A i \in DOMAIN a : b[f[i]] = a[i]

(* The calls whose report_id no later call has. *)
LastOfItsId == { i \in DOMAIN calls :
                   \A j \in DOMAIN calls : j > i => Added[j].report_id # Added[i].report_id }

LastOfItsIdIndex(k) ==
    CHOOSE i \in LastOfItsId : Cardinality({ j \in LastOfItsId : j <= i }) = k

(***************************************************************************)
(* C15 as stated.  Audit reports are append-only: after any sequence of    *)
(* addAuditReport calls every report added earlier is still in             *)
(* auditReports with unchanged content and relative order, also when a     *)
(* later report has the same report_id.                                    *)
(***************************************************************************)
C15_AppendOnly ==
    schema = "PipelineStore" => IsSubsequence(Added, auditReports)

(***************************************************************************)
(* C15, amended.  After any sequence of addAuditReport calls auditReports  *)
(* holds, in the order they were added and with unchanged content, exactly *)
(* the reports that no later call replaced: adding a report removes the    *)
(* earlier report with the same report_id and puts the new one last.       *)
(***************************************************************************)
C15_AppendOrReplace ==
    schema = "PipelineStore" =>
        /\ Len(auditReports) = Cardinality(LastOfItsId)
        /\ \A k \in DOMAIN auditReports : auditReports[k] = Added[LastOfItsIdIndex(k)]

(* Three reports were added, the third with the report_id and not the      *)
(* content of the first: the store holds the second and the third.         *)
C15_Witness ==
    /\ schema = "PipelineStore"
    /\ Len(calls) = 3
    /\ Added[1].report_id = Added[3].report_id
    /\ Added[1] # Added[3]
    /\ Added[2].report_id # Added[1].report_id
    /\ auditReports = <<Added[2], Added[3]>>

(***************************************************************************)
(* Vocabulary of the checkCompliance properties.                           *)
(***************************************************************************)
(* The clause of the list that a violation names. *)
RuleOf(v) == CHOOSE c \in ClauseSet : c.id = v.rule_id

(* The applicability gate of the parameters: the category is in            *)
(* applicable_types when that list is given, and the amount is not below   *)
(* min_amount when that is given.                                          *)
PassesGate(c, t) ==
    /\ "applicable_types" \in DOMAIN c.parameters =>
          \E n \in DOMAIN c.parameters.applicable_types :
              c.parameters.applicable_types[n] = t.category
    /\ "min_amount" \in DOMAIN c.parameters => t.amount >= c.parameters.min_amount

(***************************************************************************)
(* C16.  checkCompliance honours the applicability gate for every clause   *)
(* category: it reports no violation of a clause for a transaction whose   *)
(* category is not in the clause's parameters.applicable_types (when       *)
(* given) or whose amount is below parameters.min_amount (when given).     *)
(***************************************************************************)
C16_GateForEveryCategory ==
    \A p \in CheckCompliancePoints :
        \A n \in DOMAIN ResultAt(p).violations :
            PassesGate(RuleOf(ResultAt(p).violations[n]), TxnAt(p))

(***************************************************************************)
(* C17.  checkCompliance flags tax under-payment only: a TAX_MISMATCH is   *)
(* reported only when tax_paid is below the expected tax amount * rate by  *)
(* more than the tolerance (100), never when tax_paid is greater than or   *)
(* equal to the expected tax.  (rate is in hundredths.)                    *)
(***************************************************************************)
C17_UnderPaymentOnly ==
    \A p \in CheckCompliancePoints :
        \A n \in DOMAIN ResultAt(p).violations :
            LET v == ResultAt(p).violations[n]
                t == TxnAt(p)
            IN  v.type = "TAX_MISMATCH" =>
                    t.tax_paid * 100 < t.amount * RuleOf(v).parameters.rate - 100 * 100

WeightOf(type) ==
    IF type = "TAX_MISMATCH" THEN 40 ELSE IF type = "BIDDING_REQUIREMENT" THEN 30 ELSE 20

RECURSIVE WeightSum(_)
WeightSum(vs) == IF vs = <<>> THEN 0 ELSE WeightOf(Head(vs).type) + WeightSum(Tail(vs))

C19_TerminalUntilReset ==
    [][ (hook \in Hooks /\ progress.step \in {"complete", "error"}) =>
            \/ progress'.step = progress.step
            \/ progress'.step = "idle"
            \/ event'.kind = "invoked" ]_vars

(***************************************************************************)
(* Vocabulary of the failure properties: the last step delivered a failure *)
(* of the work of a stage (a database query or an agent call).             *)
(***************************************************************************)
WorkFailed == event.kind \in {"query_failed", "agent_failed"}

StepOrder ==
    << "idle", "analyzing_data", "fetching_regulations", "filtering_regulations",
       "parsing_clauses", "processing_transactions", "mapping_compliance",
       "generating_report", "complete", "error" >>

StepRank(step) == CHOOSE k \in DOMAIN StepOrder : StepOrder[k] = step

C21_LinearProgress ==
    [][ (/\ hook \in Hooks
         /\ event'.kind \notin {"invoked", "reset"}
         /\ progress.step \notin {"complete", "error"}) =>
            StepRank(progress'.step) >= StepRank(progress.step) ]_vars

(***************************************************************************)
(* C27.  isRunning reflects run activity in both hooks: it is true         *)
(* whenever at least one invocation has started and not yet finished, and  *)
(* false once all invocations have finished, in every interleaving of      *)
(* overlapping invocations.                                                *)
(***************************************************************************)
Unfinished == { r \in DOMAIN runs : runs[r].pc \notin {"notInvoked", "done"} }

C27_IsRunningReflectsActivity ==
    hook \in Hooks => (isRunning <=> Unfinished # {})

(***************************************************************************)
(* Vocabulary of the rate-limit properties: the last step delivered, to a  *)
(* run of runMasterAgent, an agent call that was still answered 429 when   *)
(* its attempts were used up.                                              *)
(***************************************************************************)
RateLimitExhausted ==
    /\ hook = "useMasterAgent"
    /\ event.kind = "agent_failed"
    /\ event.outcome = "rate_limited"

StoredReportOf(r) == \E i \in DOMAIN auditReports : auditReports[i].id = r

Requested == sent.kind = "request"

Responded == sent.kind = "response"

(***************************************************************************)
(* C22.  Retry policy of useMasterAgent.callAgent: one invocation sends at *)
(* most 7 HTTP requests (the first attempt plus at most 6 retries); a      *)
(* retry is made only after an HTTP 429 response; any other non-OK         *)
(* response makes the call throw at once, without retry; a 429 on the last *)
(* attempt makes the call throw; a successful response ends the call at    *)
(* once.                                                                   *)
(***************************************************************************)
C22_RetryPolicy ==
    /\ \A c \in DOMAIN agentCalls : agentCalls[c].requests <= 7
    /\ Requested =>
          /\ agentCalls[sent.call].requests = sent.attempt + 1
          /\ sent.attempt <= 6
          /\ sent.attempt > 0 => sent.status = 429
    /\ Responded =>
          LET call == agentCalls[sent.call]
          IN  /\ sent.status = 200 => call.pc = "done" /\ call.result = "returned"
              /\ sent.status \notin {200, 429} => call.pc = "done" /\ call.result = "threw"
              /\ (sent.status = 429 /\ sent.attempt = 6) =>
                     call.pc = "done" /\ call.result = "threw"

(* The seventh request of a call was answered 429, and the call threw. *)
C22_Witness ==
    /\ Responded
    /\ sent.status = 429
    /\ sent.attempt = 6
    /\ agentCalls[sent.call].result = "threw"

(***************************************************************************)
(* C24.  Client-side throttling in useMasterAgent: any two successive HTTP *)
(* requests sent to the agent functions by callAgent (whether they belong  *)
(* to the same call, to a retry, or to consecutive calls) are at least     *)
(* minIntervalMs (450 ms) apart.                                           *)
(***************************************************************************)
C24_RequestsSpaced ==
    Requested => sent.sincePrevious >= minIntervalMs

(***************************************************************************)
(* C26.  Pause gating in useMasterAgent: from a call of pause() until the  *)
(* next call of resume() no HTTP request is sent to any agent function; a  *)
(* call that was blocked by the pause sends its request only after         *)
(* resume(), and then only if the orchestrator is not paused at that       *)
(* moment.                                                                 *)
(***************************************************************************)
C26_NoRequestWhilePaused ==
    /\ Requested => ~sent.paused
    /\ \A c \in DOMAIN agentCalls : agentCalls[c].pc = "paused" => agentCalls[c].requests = 0

(***************************************************************************)
(* Vocabulary of the chunking property: the transactions and the delays of *)
(* the log, and the number of chunks of n transactions, ceil(n / 3).       *)
(***************************************************************************)
MappingStarted == mapping.pc # "notStarted"

TxLog == SelectSeq(mapping.log, LAMBDA e : e.kind = "tx")

DelayLog == SelectSeq(mapping.log, LAMBDA e : e.kind = "delay")

ChunkCount(n) == CHOOSE c \in 0..n : 3 * c >= n /\ (c = 0 \/ 3 * (c - 1) < n)

(***************************************************************************)
(* C25.  Chunked compliance mapping in runMasterAgent: the input           *)
(* transactions are split into ceil(n / 3) consecutive chunks of at most 3 *)
(* transactions; every input transaction is processed exactly once, in     *)
(* input order; chunk k+1 is started only after chunk k is finished and    *)
(* the inter-chunk delay has elapsed, and no delay follows the last chunk. *)
(***************************************************************************)
C25_ChunkedMapping ==
    MappingStarted =>
        LET n == Len(transactions)
            log == mapping.log
        IN  /\ mapping.totalChunks = ChunkCount(n)
            /\ Len(TxLog) <= n
            /\ mapping.pc = "finished" =>
                  Len(TxLog) = n /\ Len(DelayLog) = (IF n = 0 THEN 0 ELSE ChunkCount(n) - 1)
            /\ \A j \in DOMAIN TxLog :
                  /\ TxLog[j].id = transactions[j].id
                  /\ TxLog[j].chunk = (j - 1) \div 3
            /\ \A d \in DOMAIN DelayLog :
                  /\ DelayLog[d].chunk = d - 1
                  /\ DelayLog[d].chunk < ChunkCount(n) - 1
                  /\ DelayLog[d].ms = 2000
            /\ \A p \in DOMAIN log :
                  /\ log[p].kind = "delay" =>
                        /\ Cardinality({ q \in 1..(p - 1) : /\ log[q].kind = "tx"
                                                            /\ log[q].chunk = log[p].chunk }) = 3
                        /\ \A q \in DOMAIN log :
                              log[q].kind = "tx" => (q < p <=> log[q].chunk <= log[p].chunk)
                  /\ (log[p].kind = "tx" /\ log[p].chunk > 0) =>
                        \E q \in 1..(p - 1) : /\ log[q].kind = "delay"
                                              /\ log[q].chunk = log[p].chunk - 1

(* Seven transactions were mapped in three chunks, with two delays. *)
C25_Witness ==
    /\ MappingStarted
    /\ mapping.pc = "finished"
    /\ Len(transactions) = 7
    /\ clauses # <<>>
    /\ Len(TxLog) = 7
    /\ Len(DelayLog) = 2

(***************************************************************************)
(* C28.  useStreamingAgent keeps isLoading true only while a call is in    *)
(* flight: whenever runAgent has returned a response (streamed from the    *)
(* backend or taken from the mock fallback) or has thrown, and no other    *)
(* call is in flight, isLoading is false.                                  *)
(***************************************************************************)
StreamsInFlight == { r \in DOMAIN streamRuns : streamRuns[r].pc \notin {"notInvoked", "done"} }

C28_LoadingOnlyInFlight ==
    isLoading => StreamsInFlight # {}

(***************************************************************************)
(* Vocabulary of the store property.                                       *)
(***************************************************************************)
NoRepeatedKey(collection, key) ==
    \A i, j \in DOMAIN collection : collection[i][key] = collection[j][key] => i = j

(* The collection after the call is the collection before it without the   *)
(* entries whose key the batch has, followed by the batch.                 *)
Replaced(before, after, batch, key) ==
    LET keys == { batch[i][key] : i \in DOMAIN batch }
    IN  after = SelectSeq(before, LAMBDA e : e[key] \notin keys) \o batch

(***************************************************************************)
(* C29.  Key uniqueness in the pipeline store: starting from the empty     *)
(* store, after any sequence of addRegulations, addParsedClauses,          *)
(* addTransactions, addComplianceResults and addAuditReport calls with     *)
(* arbitrary batches (including a batch that repeats a key), no collection *)
(* contains two entries with the same key (id, clause_id, id,              *)
(* transaction_id, report_id respectively); an added entry replaces the    *)
(* stored entry with the same key and is placed at the end, entries with   *)
(* other keys keep their content and relative order, and the other four    *)
(* collections are unchanged.                                              *)
(***************************************************************************)
C29_KeysUnique ==
    [][ calls' # calls =>
          LET call == calls'[Len(calls')]
              fn == call.fn
          IN  /\ NoRepeatedKey(regulations', "id")
              /\ NoRepeatedKey(clauses', "clause_id")
              /\ NoRepeatedKey(transactions', "id")
              /\ NoRepeatedKey(results', "transaction_id")
              /\ NoRepeatedKey(auditReports', "report_id")
              /\ IF fn = "addRegulations"
                 THEN Replaced(regulations, regulations', call.arg, "id")
                 ELSE regulations' = regulations
              /\ IF fn = "addParsedClauses"
                 THEN Replaced(clauses, clauses', call.arg, "clause_id")
                 ELSE clauses' = clauses
              /\ IF fn = "addTransactions"
                 THEN Replaced(transactions, transactions', call.arg, "id")
                 ELSE transactions' = transactions
              /\ IF fn = "addComplianceResults"
                 THEN Replaced(results, results', call.arg, "transaction_id")
                 ELSE results' = results
              /\ IF fn = "addAuditReport"
                 THEN Replaced(auditReports, auditReports', <<call.arg>>, "report_id")
                 ELSE auditReports' = auditReports ]_vars

(***************************************************************************)
(* C30.  Every successful (HTTP 200) response of the batch-compliance-     *)
(* audit function contains at least one result for each transaction of the *)
(* request, and every result's clauseId is the clauseId of a clause listed *)
(* in the same response; this holds both when the AI reply parses as JSON  *)
(* and when the fallback response is built after a parse failure.          *)
(***************************************************************************)
C30_ResultsCoverAndRefer ==
    (response # NotCalled /\ response.status = 200) =>
        LET body == response.body
        IN  /\ \A t \in DOMAIN transactions :
                  \E i \in DOMAIN body.results :
                      body.results[i].transactionId = transactions[t].id
            /\ \A i \in DOMAIN body.results :
                  \E c \in DOMAIN body.clauses :
                      body.clauses[c].clauseId = body.results[i].clauseId

====
